---- MODULE Spec2Model ----
(***************************************************************************)
(* Oracle price feed backend: the consensus pipeline of                    *)
(* price_aggregator.rs, the Redis cache of cache.rs and the request        *)
(* handlers of api.rs.                                                     *)
(*                                                                         *)
(* A rust_decimal::Decimal d is represented by the integer 2 * d: every    *)
(* adapter value of the model is a whole number, and the only division by  *)
(* a constant the pipeline performs is the halving of a sum of two of      *)
(* them, which is exact in this representation.  Ratios in basis points    *)
(* do not depend on the scale.                                             *)
(***************************************************************************)
EXTENDS Integers, Sequences, FiniteSets, TLC

VARIABLES
    now,              \* wall clock, seconds (SystemTime::now / Redis clock)
    ticks,            \* how many times the clock has advanced
    in_prices,        \* harness of calculate_consensus: its argument
    out_consensus,    \* harness of calculate_consensus: its result
    call_pc,          \* one get_consensus_price call: where it is suspended
    call_symbol,      \*   its argument
    call_pyth,        \*   what self.pyth.get_price returned
    call_switchboard, \*   what self.switchboard.get_price returned
    call_valid,       \*   valid_prices
    call_result,      \*   what the call returned
    redis,            \* the Redis server: key "price:{symbol}" -> value, expiry
    fetcher_pc,       \* one CachedPriceFetcher: where get_price_with_cache is
    fetcher_symbol,   \*   its argument
    fetcher_price,    \*   what fetch_fn returned
    fetcher_result,   \*   what the call returned
    calls,            \*   how many calls it has served
    fetched,          \* history: the call invoked fetch_fn
    hits,             \* history: how many calls were served from the cache
    read_seen,        \* history: what set_price had left for the symbol when
                      \*   the call read the cache
    cache_stats,      \* what get_stats returned, if it was the last call
    put_time,         \* history: per symbol, when set_price last stored it
    put_val,          \* history: per symbol, what set_price last stored
    cache_mutex,      \* AppState.cache: the request holding the lock, or 0
    aggregator_mutex, \* AppState.aggregator: the request holding it, or 0
    pc,               \* per request: the await its handler is suspended at
    req_symbol,       \* per request: the symbol of its path
    req_pyth,         \* per request: the Pyth result inside get_consensus_price
    req_price,        \* per request: what get_price_with_cache returned
    response,         \* per request: what the handler answered
    price_history,    \* rows of table price_history, in insertion order
    price_deviation_alerts,
                      \* rows of table price_deviation_alerts
    admin_pc,         \* the clear_cache handler
    produced,         \* history: the request's Get invoked fetch_fn
    overlapped,       \* history: the request whose fetch_fn was running for
                      \*   the same symbol when this one arrived, or 0 (also
                      \*   once that request has been cancelled)
    expected,         \* history: what that fetch_fn call returned
    price_history_id_seq,
                      \* the sequence behind price_history.id: its last value
    oracle_health,    \* PriceAggregator.oracle_health: source -> OracleHealth
    health_pc,        \* one PriceAggregator::health_check: where it is
    health,           \*   its local map
    checks,           \*   how many health checks have started
    streak,           \* history: per source, failed checks since the last
                      \*   passed one
    oracle_health_rows,
                      \* table oracle_health: source -> row
    upserts,          \* how many update_oracle_health calls have run
    observed,         \* history: per source, the observations upserted
    db_call,          \* harness of database.rs: the last call
    db_result,        \*   what it returned
    db_appended,      \* history: the reading the last write appended
    price_feeds,      \* PythClient.price_feeds: symbol -> feed address
    aggregators,      \* SwitchboardClient.aggregators: symbol -> address
    register_result,  \* harness of register_symbol: the last call
    raw,              \* harness of the adapters' conversions: the raw value
    normalized,       \*   what the conversion made of it
    handler_pc        \* per api.rs handler: the step it is at

clock == <<now, ticks>>

calcVars == <<in_prices, out_consensus>>

callVars == <<call_pc, call_symbol, call_pyth, call_switchboard, call_valid,
              call_result>>

cacheVars == <<fetcher_pc, fetcher_symbol, fetcher_price, fetcher_result,
               calls, fetched, hits, read_seen, put_time, put_val,
               cache_stats>>

svcVars == <<cache_mutex, aggregator_mutex, pc, req_symbol, req_pyth,
             req_price, response, price_history, price_deviation_alerts,
             admin_pc, produced, overlapped, expected,
             price_history_id_seq>>

adapterVars == <<price_feeds, aggregators, register_result, raw, normalized>>

healthVars == <<oracle_health, health_pc, health, checks, streak,
                oracle_health_rows, upserts, observed>>

dbVars == <<db_call, db_result, db_appended>>

vars == <<clock, redis, calcVars, callVars, cacheVars, svcVars, healthVars,
          dbVars, adapterVars, handler_pc>>

(***************************************************************************)
(* Bounds of the model                                                     *)
(***************************************************************************)
Now0 == 1000          \* the clock's value in the initial state
MaxReadings == 4      \* longest slice handed to calculate_consensus alone
MaxTicks == 2         \* how many times the clock advances
MaxCalls == 3         \* calls served by the CachedPriceFetcher alone
NReq == 2             \* price requests received by the service

(***************************************************************************)
(* Program constants                                                       *)
(***************************************************************************)
max_price_age_seconds == 30
max_confidence_bps == 100
max_deviation_bps == 100
DEFAULT_CACHE_TTL == 10

(***************************************************************************)
(* types.rs, error.rs                                                      *)
(***************************************************************************)
Dec(n) == 2 * n

Abs(x) == IF x < 0 THEN -x ELSE x

PriceSource == {"Pyth", "Switchboard", "Aggregate"}

PriceData(symbol, price, confidence, timestamp, source) ==
    [symbol |-> symbol, price |-> price, confidence |-> confidence,
     timestamp |-> timestamp, source |-> source]

NoPrice == PriceData("", 0, 0, 0, "")

OracleError(kind, msg) == [kind |-> kind, msg |-> msg]

NoError == OracleError("", "")

Ok(v) == [ok |-> TRUE, val |-> v, err |-> NoError]

Err(kind, msg) == [ok |-> FALSE, val |-> NoPrice, err |-> OracleError(kind, msg)]

\* a harness slot whose operation has not run
NotRun == [ok |-> FALSE, val |-> NoPrice, err |-> OracleError("", "not run")]

(***************************************************************************)
(* price_aggregator.rs: calculate_consensus                                *)
(***************************************************************************)
\* Vec::sort_by is stable: x goes after every element whose price is <= its own
RECURSIVE InsertByPrice(_, _)
InsertByPrice(x, s) ==
    IF s = <<>> THEN <<x>>
    ELSE IF s[Len(s)].price <= x.price THEN Append(s, x)
    ELSE Append(InsertByPrice(x, SubSeq(s, 1, Len(s) - 1)), s[Len(s)])

RECURSIVE SortFold(_, _)
SortFold(s, n) ==
    IF n = 0 THEN <<>> ELSE InsertByPrice(s[n], SortFold(s, n - 1))

SortByPriceUnsorted(s) == s

SortByPrice(s) == SortFold(s, Len(s))

\* the timestamp of the first reading instead of the latest one
MaxTimestamp_first(s, n) == IF n = 0 THEN 0 ELSE s[1].timestamp

RECURSIVE MaxTimestamp(_, _)
MaxTimestamp(s, n) ==
    IF n = 0 THEN 0
    ELSE IF n = 1 THEN s[1].timestamp
    ELSE LET m == MaxTimestamp(s, n - 1)
         IN IF s[n].timestamp > m THEN s[n].timestamp ELSE m

RECURSIVE SumOfPrices(_, _)
SumOfPrices(prices, n) ==
    IF n = 0 THEN 0 ELSE prices[n].price + SumOfPrices(prices, n - 1)

\* calculate_consensus averaging every price instead of the middle ones
calculate_consensus_mean(prices) ==
    IF prices = <<>> THEN Err("NoPriceData", "No prices to aggregate")
    ELSE Ok(PriceData(prices[1].symbol,
                      SumOfPrices(prices, Len(prices)) \div Len(prices),
                      prices[1].confidence,
                      MaxTimestamp(prices, Len(prices)), "Aggregate"))

\* calculate_consensus handing a lone reading back under its own source
calculate_consensus_keeping_source(prices) ==
    IF prices = <<>> THEN Err("NoPriceData", "No prices to aggregate")
    ELSE
      LET sorted_prices == SortByPrice(prices)
          len == Len(sorted_prices)
          mid  == sorted_prices[(len \div 2) + 1]
          mid1 == sorted_prices[len \div 2]
          mid2 == sorted_prices[(len \div 2) + 1]
          consensus_price ==
              IF len % 2 = 1 THEN mid.price
              ELSE (mid1.price + mid2.price) \div 2
          consensus_confidence ==
              IF len % 2 = 1 THEN mid.confidence
              ELSE (mid1.confidence + mid2.confidence) \div 2
      IN Ok(PriceData(prices[1].symbol, consensus_price, consensus_confidence,
                      MaxTimestamp(prices, Len(prices)),
                      IF len = 1 THEN mid.source ELSE "Aggregate"))

calculate_consensus(prices) ==
    IF prices = <<>> THEN Err("NoPriceData", "No prices to aggregate")
    ELSE
      LET sorted_prices == SortByPrice(prices)
          len == Len(sorted_prices)
          \* Rust indexes from 0, a TLA+ sequence from 1
          mid  == sorted_prices[(len \div 2) + 1]
          mid1 == sorted_prices[len \div 2]
          mid2 == sorted_prices[(len \div 2) + 1]
          consensus_price ==
              IF len % 2 = 1 THEN mid.price
              ELSE (mid1.price + mid2.price) \div 2
          consensus_confidence ==
              IF len % 2 = 1 THEN mid.confidence
              ELSE (mid1.confidence + mid2.confidence) \div 2
      IN Ok(PriceData(prices[1].symbol, consensus_price, consensus_confidence,
                      MaxTimestamp(prices, Len(prices)), "Aggregate"))

(***************************************************************************)
(* Harness of calculate_consensus: any slice of at most MaxReadings        *)
(* readings of one symbol.                                                 *)
(***************************************************************************)
CalcPriceInts == {-100, 0, 100, 101, 103}

\* a reading without confidence interval taken a second ago, or one with
\* an interval taken now
CalcReadings ==
    { PriceData("BTC/USD", Dec(p), Dec(c), Now0 - 1 + c, "Pyth") :
        p \in CalcPriceInts, c \in {0, 1} }

CalcInit ==
    /\ in_prices = <<>>
    /\ out_consensus = NotRun

CalcPush ==
    /\ out_consensus = NotRun
    /\ Len(in_prices) < MaxReadings
    /\ \E r \in CalcReadings : in_prices' = Append(in_prices, r)
    /\ UNCHANGED <<out_consensus, clock, callVars, redis, cacheVars, svcVars,
                   healthVars, dbVars,
                   adapterVars, handler_pc>>

CalcApply ==
    /\ out_consensus = NotRun
    /\ out_consensus' = calculate_consensus(in_prices)
    /\ UNCHANGED <<in_prices, clock, callVars, redis, cacheVars, svcVars,
                   healthVars, dbVars,
                   adapterVars, handler_pc>>

CalcReset ==
    /\ out_consensus # NotRun
    /\ in_prices' = <<>>
    /\ out_consensus' = NotRun
    /\ UNCHANGED <<clock, callVars, redis, cacheVars, svcVars, healthVars,
                   dbVars,
                   adapterVars, handler_pc>>

CalcNext == CalcPush \/ CalcApply \/ CalcReset

(***************************************************************************)
(* pyth_client.rs, switchboard_client.rs: what one get_price may return.   *)
(* The account a feed address names is outside the program: its price,     *)
(* confidence and publish time are whatever the chain holds.               *)
(***************************************************************************)
PythFeeds == {"BTC/USD", "ETH/USD"}

SwitchboardAggregators == {"BTC/USD", "ETH/USD"}

PriceInts == {-100, 0, 98, 99, 100, 101, 103}

ConfInts == {0, 1, 2}

Ages == {0, max_price_age_seconds, max_price_age_seconds + 1}

PythGetPrice(symbol, t) ==
    IF symbol \notin PythFeeds
    THEN {Err("NoPriceData", "No Pyth feed registered")}
    ELSE {Err("SolanaError", "Failed to fetch account"),
          Err("ParseError", "Failed to parse Pyth account")}
         \cup {Ok(PriceData(symbol, Dec(p), Dec(c), t - a, "Pyth")) :
                  p \in PriceInts, c \in ConfInts, a \in Ages}

SwitchboardGetPrice(symbol, t) ==
    IF symbol \notin SwitchboardAggregators
    THEN {Err("NoPriceData", "No Switchboard aggregator registered")}
    ELSE {Err("SolanaError", "Failed to fetch account"),
          Err("ParseError", "Failed to parse Switchboard account"),
          Err("NoPriceData", "No confirmed round")}
         \cup {Ok(PriceData(symbol, Dec(p), Dec(c), t - a, "Switchboard")) :
                  p \in PriceInts, c \in ConfInts, a \in Ages}

(***************************************************************************)
(* price_aggregator.rs: validation, deviation gate, get_consensus_price    *)
(***************************************************************************)
\* Decimal::to_u64 of (confidence / price) * 10000: None when negative,
\* truncated otherwise
calculate_confidence_bps_zero_unguarded(price) ==
    IF price.price = 0 THEN Ok(price.confidence * 10000)
    ELSE IF price.confidence = 0 THEN Ok(0)
    ELSE IF (price.confidence < 0) # (price.price < 0)
    THEN Err("ParseError", "Failed to convert confidence to u64")
    ELSE Ok((Abs(price.confidence) * 10000) \div Abs(price.price))

calculate_confidence_bps(price) ==
    IF price.price = 0 THEN Ok(0)
    ELSE IF price.confidence = 0 THEN Ok(0)
    ELSE IF (price.confidence < 0) # (price.price < 0)
    THEN Err("ParseError", "Failed to convert confidence to u64")
    ELSE Ok((Abs(price.confidence) * 10000) \div Abs(price.price))

RECURSIVE ValidateLoop(_, _, _)
ValidateLoop(prices, n, t) ==
    IF n = 0 THEN Ok(<<>>)
    ELSE
      LET before == ValidateLoop(prices, n - 1, t)
          price == prices[n]
          age == t - price.timestamp
          confidence_bps == calculate_confidence_bps(price)
      IN IF ~before.ok THEN before
         ELSE IF age > max_price_age_seconds THEN before
         ELSE IF ~confidence_bps.ok THEN confidence_bps
         ELSE IF confidence_bps.val > max_confidence_bps THEN before
         ELSE Ok(Append(before.val, price))

validate_prices_keep_all(prices, t) == Ok(prices)

validate_prices_failing_stale(prices, t) ==
    IF \E i \in 1..Len(prices) : t - prices[i].timestamp > max_price_age_seconds
    THEN Err("StalePrice", "stale")
    ELSE ValidateLoop(prices, Len(prices), t)

validate_prices(prices, t) == ValidateLoop(prices, Len(prices), t)

calculate_deviation(price1, price2) ==
    IF price2 = 0 THEN Ok(0)
    ELSE IF price1 = price2 THEN Ok(0)
    ELSE IF price2 < 0
    THEN Err("ParseError", "Failed to convert deviation to u64")
    ELSE Ok((Abs(price1 - price2) * 10000) \div price2)

RECURSIVE GateLoop(_, _, _)
GateLoop(prices, n, consensus) ==
    IF n = 0 THEN Ok(<<>>)
    ELSE
      LET before == GateLoop(prices, n - 1, consensus)
          deviation == calculate_deviation(prices[n].price, consensus.price)
      IN IF ~before.ok THEN before
         ELSE IF ~deviation.ok THEN deviation
         ELSE IF deviation.val > max_deviation_bps
         THEN Err("PriceDeviation", prices[n].source)
         ELSE Ok(<<>>)

validate_consensus(prices, consensus) ==
    GateLoop(prices, Len(prices), consensus)

CollectPrices(pyth_res, sb_res) ==
    (IF pyth_res.ok THEN <<pyth_res.val>> ELSE <<>>)
    \o (IF sb_res.ok THEN <<sb_res.val>> ELSE <<>>)

\* steps 2 to 5 of get_consensus_price, which run without suspending once
\* both adapters have answered
ConsensusOf(prices, t) ==
    IF prices = <<>> THEN Err("NoPriceData", "All oracles failed")
    ELSE
      LET valid_prices == validate_prices(prices, t) IN
      IF ~valid_prices.ok THEN valid_prices
      ELSE IF valid_prices.val = <<>>
      THEN Err("NoPriceData", "No valid prices after validation")
      ELSE
        LET consensus == calculate_consensus(valid_prices.val) IN
        IF ~consensus.ok THEN consensus
        ELSE
          LET gate == validate_consensus(valid_prices.val, consensus.val) IN
          IF ~gate.ok THEN gate ELSE consensus

get_consensus_price_try(pyth_res, sb_res, t) ==
    IF ~pyth_res.ok THEN pyth_res
    ELSE IF ~sb_res.ok THEN sb_res
    ELSE ConsensusOf(CollectPrices(pyth_res, sb_res), t)

get_consensus_price(pyth_res, sb_res, t) ==
    ConsensusOf(CollectPrices(pyth_res, sb_res), t)

\* valid_prices as the call computed it (empty when it never got there)
ValidPricesOf(pyth_res, sb_res, t) ==
    LET valid_prices == validate_prices(CollectPrices(pyth_res, sb_res), t)
    IN IF valid_prices.ok THEN valid_prices.val ELSE <<>>

(***************************************************************************)
(* The clock: time passes by a second, or by one second less than the      *)
(* cache's time to live, while any handler is suspended.                   *)
(***************************************************************************)
TickSteps == {1, DEFAULT_CACHE_TTL - 1}

Advance ==
    /\ ticks < MaxTicks
    /\ ticks' = ticks + 1
    /\ \E d \in TickSteps : now' = now + d

(***************************************************************************)
(* One get_consensus_price call, suspended at each adapter's await         *)
(***************************************************************************)
CallSymbols == {"BTC/USD", "DOGE/USD"}

CallInit ==
    /\ call_pc = "idle"
    /\ call_symbol = ""
    /\ call_pyth = NotRun
    /\ call_switchboard = NotRun
    /\ call_valid = <<>>
    /\ call_result = NotRun

CallStart ==
    /\ call_pc = "idle"
    /\ \E s \in CallSymbols : call_symbol' = s
    /\ call_pc' = "pyth"
    /\ call_pyth' = NotRun
    /\ call_switchboard' = NotRun
    /\ call_valid' = <<>>
    /\ call_result' = NotRun
    /\ UNCHANGED <<clock, calcVars, redis, cacheVars, svcVars, healthVars,
                   dbVars,
                   adapterVars, handler_pc>>

CallPyth ==
    /\ call_pc = "pyth"
    /\ \E res \in PythGetPrice(call_symbol, now) : call_pyth' = res
    /\ call_pc' = "switchboard"
    /\ UNCHANGED <<clock, call_symbol, call_switchboard, call_valid,
                   call_result, calcVars, redis, cacheVars, svcVars,
                   healthVars, dbVars,
                   adapterVars, handler_pc>>

CallSwitchboard ==
    /\ call_pc = "switchboard"
    /\ \E res \in SwitchboardGetPrice(call_symbol, now) :
          /\ call_switchboard' = res
          /\ call_valid' = ValidPricesOf(call_pyth, res, now)
          /\ call_result' = get_consensus_price(call_pyth, res, now)
    /\ call_pc' = "done"
    /\ UNCHANGED <<clock, call_symbol, call_pyth, calcVars, redis, cacheVars,
                   svcVars, healthVars, dbVars,
                   adapterVars, handler_pc>>

CallReturn ==
    /\ call_pc = "done"
    /\ call_pc' = "idle"
    /\ UNCHANGED <<clock, call_symbol, call_pyth, call_switchboard,
                   call_valid, call_result, calcVars, redis, cacheVars,
                   svcVars, healthVars, dbVars,
                   adapterVars, handler_pc>>

CallTick ==
    /\ call_pc \in {"pyth", "switchboard"}
    /\ Advance
    /\ UNCHANGED <<callVars, calcVars, redis, cacheVars, svcVars, healthVars,
                   dbVars,
                   adapterVars, handler_pc>>

CallNext == CallStart \/ CallPyth \/ CallSwitchboard \/ CallReturn \/ CallTick

(***************************************************************************)
(* cache.rs: PriceCache over a Redis server.  SET EX stores a value with   *)
(* an expiry, GET answers nil once the expiry has passed.                  *)
(***************************************************************************)
Symbols == {"BTC/USD", "ETH/USD"}

make_key(symbol) == <<"price:", symbol>>

NoEntry == [present |-> FALSE, json |-> <<>>, expires_at |-> 0]

None == [some |-> FALSE, val |-> NoPrice]

Some(v) == [some |-> TRUE, val |-> v]

\* serde_json::to_string of a PriceData: its five fields in order, the
\* Decimals written as strings that keep every digit
to_json(price) ==
    <<price.symbol, price.price, price.confidence, price.timestamp,
      price.source>>

from_json(json) == PriceData(json[1], json[2], json[3], json[4], json[5])

set_price_expiring_late(store, price, ttl, t) ==
    [store EXCEPT ![make_key(price.symbol)] =
        [present |-> TRUE, json |-> to_json(price), expires_at |-> t + ttl + 1]]

\* set_ex(key, json, ttl), answered without error
set_price(store, price, ttl, t) ==
    [store EXCEPT ![make_key(price.symbol)] =
        [present |-> TRUE, json |-> to_json(price), expires_at |-> t + ttl]]

get_price_ignoring_expiry(store, symbol, t) ==
    LET entry == store[make_key(symbol)] IN
    IF entry.present THEN Some(from_json(entry.json)) ELSE None

\* get(key), answered without error
get_price(store, symbol, t) ==
    LET entry == store[make_key(symbol)] IN
    IF entry.present /\ t < entry.expires_at
    THEN Some(from_json(entry.json))
    ELSE None

\* clear_all deleting only the first key that keys("price:*") listed
clear_all_first_key(store) ==
    IF \E k \in DOMAIN store : store[k].present
    THEN [store EXCEPT ![CHOOSE k \in DOMAIN store : store[k].present] = NoEntry]
    ELSE store

\* keys("price:*") then del(keys), answered without error
clear_all(store) == [k \in DOMAIN store |-> NoEntry]

\* used_memory of INFO memory, or 0 when the line is missing or unreadable
MemoryUsages == {0, 1024}

CacheStats(total_keys, memory_usage, ttl) ==
    [some |-> TRUE, total_keys |-> total_keys,
     memory_usage |-> memory_usage, ttl |-> ttl]

NoStats == [some |-> FALSE, total_keys |-> 0, memory_usage |-> 0, ttl |-> 0]

\* keys("price:*"): the keys the server holds that have not expired
Keys(store, t) ==
    {k \in DOMAIN store : store[k].present /\ t < store[k].expires_at}

\* keys("price:*").len(), INFO memory, self.ttl
get_stats(store, ttl, t) ==
    {CacheStats(Cardinality(Keys(store, t)), m, ttl) : m \in MemoryUsages}

RedisError == Err("RedisError", "redis")

RedisInit == redis = [k \in {make_key(s) : s \in Symbols} |-> NoEntry]

(***************************************************************************)
(* cache.rs: one CachedPriceFetcher.  get_price_with_cache takes &mut      *)
(* self, so its calls follow one another; it is suspended at the cache     *)
(* read, at fetch_fn and at the cache write, while time passes and the     *)
(* keys may be cleared.                                                    *)
(***************************************************************************)
FetchPrices == {100, 101}

\* the caller's closure: a reading taken now, or an error
fetch_fn(symbol, t) ==
    {Ok(PriceData(symbol, Dec(p), Dec(0), t, "Aggregate")) : p \in FetchPrices}
        \cup {Err("NoPriceData", symbol)}

NotRead == [state |-> "none", val |-> NoPrice]

\* what set_price has left for symbol s, by the clock alone
Seen(s) ==
    IF put_time[s] < 0 THEN [state |-> "absent", val |-> NoPrice]
    ELSE IF now - put_time[s] < DEFAULT_CACHE_TTL
         THEN [state |-> "live", val |-> put_val[s]]
         ELSE [state |-> "expired", val |-> NoPrice]

CacheInit ==
    /\ fetcher_pc = "idle"
    /\ fetcher_symbol = ""
    /\ fetcher_price = NoPrice
    /\ fetcher_result = NotRun
    /\ calls = 0
    /\ fetched = FALSE
    /\ hits = 0
    /\ read_seen = NotRead
    /\ put_time = [s \in Symbols |-> -1]
    /\ put_val = [s \in Symbols |-> NoPrice]
    /\ cache_stats = NoStats

\* get_price_with_cache(symbol, fetch_fn) is called
GetStart ==
    /\ fetcher_pc = "idle"
    /\ calls < MaxCalls
    /\ calls' = calls + 1
    /\ \E s \in Symbols : fetcher_symbol' = s
    /\ fetcher_pc' = "cache_get"
    /\ fetcher_price' = NoPrice
    /\ fetcher_result' = NotRun
    /\ fetched' = FALSE
    /\ read_seen' = NotRead
    /\ cache_stats' = NoStats
    /\ UNCHANGED <<hits, put_time, put_val, clock, redis, calcVars, callVars,
                   svcVars, healthVars, dbVars,
                   adapterVars, handler_pc>>

\* step 1, self.cache.get_price(symbol).await?, answered with an error
GetReadError ==
    /\ fetcher_pc = "cache_get"
    /\ fetcher_result' = RedisError
    /\ fetcher_pc' = "idle"
    /\ cache_stats' = NoStats
    /\ UNCHANGED <<fetcher_symbol, fetcher_price, calls, fetched, hits,
                   read_seen, put_time, put_val, clock, redis, calcVars,
                   callVars, svcVars, healthVars, dbVars,
                   adapterVars, handler_pc>>

\* step 1: a hit returns the cached price, a miss goes on to fetch_fn
GetRead ==
    /\ fetcher_pc = "cache_get"
    /\ read_seen' = Seen(fetcher_symbol)
    /\ LET cached_price == get_price(redis, fetcher_symbol, now) IN
       IF cached_price.some
       THEN /\ fetcher_result' = Ok(cached_price.val)
            /\ fetcher_pc' = "idle"
            /\ hits' = hits + 1
            /\ UNCHANGED fetched
       ELSE /\ fetcher_pc' = "fetch_fn"
            /\ fetched' = TRUE
            /\ UNCHANGED <<fetcher_result, hits>>
    /\ cache_stats' = NoStats
    /\ UNCHANGED <<fetcher_symbol, fetcher_price, calls, put_time, put_val,
                   clock, redis, calcVars, callVars, svcVars, healthVars,
                   dbVars,
                   adapterVars, handler_pc>>

\* step 2: fetch_fn(symbol.to_string()).await?
GetFetch ==
    /\ fetcher_pc = "fetch_fn"
    /\ \E res \in fetch_fn(fetcher_symbol, now) :
          IF res.ok
          THEN /\ fetcher_price' = res.val
               /\ fetcher_pc' = "cache_set"
               /\ UNCHANGED fetcher_result
          ELSE /\ fetcher_result' = res
               /\ fetcher_pc' = "idle"
               /\ UNCHANGED fetcher_price
    /\ cache_stats' = NoStats
    /\ UNCHANGED <<fetcher_symbol, calls, fetched, hits, read_seen, put_time,
                   put_val, clock, redis, calcVars, callVars, svcVars,
                   healthVars, dbVars,
                   adapterVars, handler_pc>>

\* step 3, self.cache.set_price(&price).await?, answered with an error
GetWriteError ==
    /\ fetcher_pc = "cache_set"
    /\ fetcher_result' = RedisError
    /\ fetcher_pc' = "idle"
    /\ cache_stats' = NoStats
    /\ UNCHANGED <<fetcher_symbol, fetcher_price, calls, fetched, hits,
                   read_seen, put_time, put_val, clock, redis, calcVars,
                   callVars, svcVars, healthVars, dbVars,
                   adapterVars, handler_pc>>

\* step 3, then Ok(price)
GetWrite ==
    /\ fetcher_pc = "cache_set"
    /\ redis' = set_price(redis, fetcher_price, DEFAULT_CACHE_TTL, now)
    /\ put_time' = [put_time EXCEPT ![fetcher_price.symbol] = now]
    /\ put_val' = [put_val EXCEPT ![fetcher_price.symbol] = fetcher_price]
    /\ fetcher_result' = Ok(fetcher_price)
    /\ fetcher_pc' = "idle"
    /\ cache_stats' = NoStats
    /\ UNCHANGED <<fetcher_symbol, fetcher_price, calls, fetched, hits,
                   read_seen, clock, calcVars, callVars, svcVars, healthVars,
                   dbVars,
                   adapterVars, handler_pc>>

\* clear_all on the same server, from the admin endpoint
CacheClear ==
    /\ \E s \in Symbols : put_time[s] >= 0
    /\ redis' = clear_all(redis)
    /\ put_time' = [s \in Symbols |-> -1]
    /\ put_val' = [s \in Symbols |-> NoPrice]
    /\ cache_stats' = NoStats
    /\ UNCHANGED <<fetcher_pc, fetcher_symbol, fetcher_price, fetcher_result,
                   calls, fetched, hits, read_seen, clock, calcVars, callVars,
                   svcVars, healthVars, dbVars,
                   adapterVars, handler_pc>>

CacheTick ==
    /\ Advance
    /\ cache_stats' = NoStats
    /\ UNCHANGED <<fetcher_pc, fetcher_symbol, fetcher_price, fetcher_result,
                   calls, fetched, hits, read_seen, put_time, put_val, redis,
                   calcVars, callVars, svcVars, healthVars, dbVars,
                   adapterVars, handler_pc>>

\* cache().get_stats().await, answered without error
CacheGetStats ==
    /\ fetcher_pc = "idle"
    /\ cache_stats' \in get_stats(redis, DEFAULT_CACHE_TTL, now)
    /\ UNCHANGED <<fetcher_pc, fetcher_symbol, fetcher_price, fetcher_result,
                   calls, fetched, hits, read_seen, put_time, put_val, clock,
                   redis, calcVars, callVars, svcVars, healthVars, dbVars,
                   adapterVars, handler_pc>>

CacheNext ==
    \/ GetStart
    \/ GetReadError
    \/ GetRead
    \/ GetFetch
    \/ GetWriteError
    \/ GetWrite
    \/ CacheClear
    \/ CacheTick
    \/ CacheGetStats

(***************************************************************************)
(* api.rs: tokio::sync::Mutex, get_price, clear_cache.  NReq requests      *)
(* arrive, each on its own tokio future, and are served within a second.   *)
(***************************************************************************)
Requests == 1..NReq

Admin == NReq + 1

MutexFreeAlways(mutex) == TRUE

\* lock().await completes only while nobody holds the mutex
MutexFree(mutex) == mutex = 0

ProduceStates == {"pyth", "switchboard"}

\* readings of the moment, which the pipeline accepts
SvcPyth(symbol, t) ==
    {r \in PythGetPrice(symbol, t) :
        IF ~r.ok THEN r.err.kind = "SolanaError" ELSE
                /\ r.val.price = Dec(100)
                /\ r.val.confidence = Dec(1)
                /\ r.val.timestamp = t}

SvcSwitchboard(symbol, t) ==
    {r \in SwitchboardGetPrice(symbol, t) :
        IF ~r.ok THEN r.err.kind = "SolanaError" ELSE
                /\ r.val.price \in {Dec(100), Dec(103)}
                /\ r.val.confidence = Dec(0)
                /\ r.val.timestamp = t}

SvcInit ==
    /\ cache_mutex = 0
    /\ aggregator_mutex = 0
    /\ pc = [r \in Requests |-> "idle"]
    /\ req_symbol = [r \in Requests |-> ""]
    /\ req_pyth = [r \in Requests |-> NotRun]
    /\ req_price = [r \in Requests |-> NotRun]
    /\ response = [r \in Requests |-> NotRun]
    /\ price_history = <<>>
    /\ price_deviation_alerts = <<>>
    /\ price_history_id_seq = 0
    /\ admin_pc = "idle"
    /\ produced = [r \in Requests |-> FALSE]
    /\ overlapped = [r \in Requests |-> 0]
    /\ expected = [r \in Requests |-> NotRun]

\* the request running fetch_fn for symbol s, or 0
Producer(s) ==
    IF \E q \in Requests : pc[q] \in ProduceStates /\ req_symbol[q] = s
    THEN CHOOSE q \in Requests : pc[q] \in ProduceStates /\ req_symbol[q] = s
    ELSE 0

\* the handler's guards are dropped, in reverse order of declaration
Unlock ==
    /\ aggregator_mutex' = 0
    /\ cache_mutex' = 0

\* fetch_fn of request r has returned res: requests that arrived meanwhile
\* for the same symbol learn what it returned
Landed(r, res) ==
    expected' = [q \in Requests |->
                    IF overlapped[q] = r /\ pc[q] \in {"lock_cache", "lock_aggregator"}
                    THEN res ELSE expected[q]]

\* GET /api/v1/price/:symbol arrives
Arrive(r) ==
    /\ pc[r] = "idle"
    /\ \E s \in Symbols :
          /\ req_symbol' = [req_symbol EXCEPT ![r] = s]
          /\ overlapped' = [overlapped EXCEPT ![r] = Producer(s)]
    /\ pc' = [pc EXCEPT ![r] = "lock_cache"]
    /\ UNCHANGED <<cache_mutex, aggregator_mutex, req_pyth, req_price,
                   response, price_history, price_deviation_alerts, admin_pc,
                   produced, expected, clock, redis, calcVars, callVars,
                   cacheVars, healthVars, dbVars,
                   price_history_id_seq,
                   adapterVars, handler_pc>>

\* let mut cache = state.cache.lock().await
LockCache(r) ==
    /\ pc[r] = "lock_cache"
    /\ MutexFree(cache_mutex)
    /\ cache_mutex' = r
    /\ pc' = [pc EXCEPT ![r] = "lock_aggregator"]
    /\ UNCHANGED <<aggregator_mutex, req_symbol, req_pyth, req_price,
                   response, price_history, price_deviation_alerts, admin_pc,
                   produced, overlapped, expected, clock, redis, calcVars,
                   callVars, cacheVars, healthVars, dbVars,
                   price_history_id_seq,
                   adapterVars, handler_pc>>

\* let aggregator = state.aggregator.lock().await
LockAggregator(r) ==
    /\ pc[r] = "lock_aggregator"
    /\ MutexFree(aggregator_mutex)
    /\ aggregator_mutex' = r
    /\ pc' = [pc EXCEPT ![r] = "cache_get"]
    /\ UNCHANGED <<cache_mutex, req_symbol, req_pyth, req_price, response,
                   price_history, price_deviation_alerts, admin_pc, produced,
                   overlapped, expected, clock, redis, calcVars, callVars,
                   cacheVars, healthVars, dbVars,
                   price_history_id_seq,
                   adapterVars, handler_pc>>

\* get_price_with_cache, step 1: self.cache.get_price(symbol).await?
CacheGetError(r) ==
    /\ pc[r] = "cache_get"
    /\ req_price' = [req_price EXCEPT ![r] = RedisError]
    /\ response' = [response EXCEPT ![r] = RedisError]
    /\ pc' = [pc EXCEPT ![r] = "done"]
    /\ Unlock
    /\ UNCHANGED <<req_symbol, req_pyth, price_history,
                   price_deviation_alerts, admin_pc, produced, overlapped,
                   expected, clock, redis, calcVars, callVars, cacheVars,
                   healthVars, dbVars,
                   price_history_id_seq,
                   adapterVars, handler_pc>>

CacheGet(r) ==
    /\ pc[r] = "cache_get"
    /\ LET cached_price == get_price(redis, req_symbol[r], now) IN
       IF cached_price.some
       THEN /\ req_price' = [req_price EXCEPT ![r] = Ok(cached_price.val)]
            /\ pc' = [pc EXCEPT ![r] = "insert_price"]
            /\ Unlock
            /\ UNCHANGED produced
       ELSE /\ produced' = [produced EXCEPT ![r] = TRUE]
            /\ pc' = [pc EXCEPT ![r] = "pyth"]
            /\ UNCHANGED <<req_price, cache_mutex, aggregator_mutex,
                           price_deviation_alerts, healthVars, dbVars,
                   price_history_id_seq,
                   adapterVars, handler_pc>>
    /\ UNCHANGED <<req_symbol, req_pyth, response, price_history,
                   price_deviation_alerts, admin_pc, overlapped, expected,
                   clock, redis, calcVars, callVars, cacheVars, healthVars,
                   dbVars,
                   price_history_id_seq,
                   adapterVars, handler_pc>>

\* fetch_fn: get_consensus_price, suspended at self.pyth.get_price
FetchPyth(r) ==
    /\ pc[r] = "pyth"
    /\ \E res \in SvcPyth(req_symbol[r], now) :
          req_pyth' = [req_pyth EXCEPT ![r] = res]
    /\ pc' = [pc EXCEPT ![r] = "switchboard"]
    /\ UNCHANGED <<cache_mutex, aggregator_mutex, req_symbol, req_price,
                   response, price_history, price_deviation_alerts, admin_pc,
                   produced, overlapped, expected, clock, redis, calcVars,
                   callVars, cacheVars, healthVars, dbVars,
                   price_history_id_seq,
                   adapterVars, handler_pc>>

\* a failed fetch_fn that also empties the cache before it returns
FetchSwitchboard_invalidating(r) ==
    /\ pc[r] = "switchboard"
    /\ \E res \in SvcSwitchboard(req_symbol[r], now) :
          LET price == get_consensus_price(req_pyth[r], res, now) IN
          /\ req_price' = [req_price EXCEPT ![r] = price]
          /\ Landed(r, price)
          /\ IF price.ok
             THEN /\ pc' = [pc EXCEPT ![r] = "cache_set"]
                  /\ UNCHANGED <<response, cache_mutex, aggregator_mutex,
                                 redis>>
             ELSE /\ pc' = [pc EXCEPT ![r] = "done"]
                  /\ response' = [response EXCEPT ![r] = price]
                  /\ redis' = clear_all(redis)
                  /\ Unlock
    /\ UNCHANGED <<req_symbol, req_pyth, price_history,
                   price_deviation_alerts, admin_pc, produced, overlapped,
                   clock, calcVars, callVars, cacheVars, healthVars,
                   dbVars, price_history_id_seq,
                   adapterVars, handler_pc>>

\* fetch_fn: self.switchboard.get_price, then the rest of
\* get_consensus_price; an error leaves get_price_with_cache and the handler
\* through the two ? operators
FetchSwitchboard(r) ==
    /\ pc[r] = "switchboard"
    /\ \E res \in SvcSwitchboard(req_symbol[r], now) :
          LET price == get_consensus_price(req_pyth[r], res, now) IN
          /\ req_price' = [req_price EXCEPT ![r] = price]
          /\ Landed(r, price)
          /\ IF price.ok
             THEN /\ pc' = [pc EXCEPT ![r] = "cache_set"]
                  /\ UNCHANGED <<response, cache_mutex, aggregator_mutex,
                                 price_deviation_alerts, healthVars, dbVars,
                   price_history_id_seq,
                   adapterVars, handler_pc>>
             ELSE /\ pc' = [pc EXCEPT ![r] = "done"]
                  /\ response' = [response EXCEPT ![r] = price]
                  /\ Unlock
    /\ UNCHANGED <<req_symbol, req_pyth, price_history,
                   price_deviation_alerts, admin_pc, produced, overlapped,
                   clock, redis, calcVars, callVars, cacheVars, healthVars,
                   dbVars,
                   price_history_id_seq,
                   adapterVars, handler_pc>>

\* get_price_with_cache, step 3: self.cache.set_price(&price).await?
CacheSetError(r) ==
    /\ pc[r] = "cache_set"
    /\ req_price' = [req_price EXCEPT ![r] = RedisError]
    /\ response' = [response EXCEPT ![r] = RedisError]
    /\ pc' = [pc EXCEPT ![r] = "done"]
    /\ Unlock
    /\ UNCHANGED <<req_symbol, req_pyth, price_history,
                   price_deviation_alerts, admin_pc, produced, overlapped,
                   expected, clock, redis, calcVars, callVars, cacheVars,
                   healthVars, dbVars,
                   price_history_id_seq,
                   adapterVars, handler_pc>>

CacheSet(r) ==
    /\ pc[r] = "cache_set"
    /\ redis' = set_price(redis, req_price[r].val, DEFAULT_CACHE_TTL, now)
    /\ pc' = [pc EXCEPT ![r] = "insert_price"]
    /\ Unlock
    /\ UNCHANGED <<req_symbol, req_pyth, req_price, response, price_history,
                   price_deviation_alerts, admin_pc, produced, overlapped,
                   expected, clock, calcVars, callVars, cacheVars, healthVars,
                   dbVars,
                   price_history_id_seq,
                   adapterVars, handler_pc>>

\* INSERT INTO price_history (symbol, price, confidence, source, timestamp)
\* RETURNING id; source is bound as the Debug name of the variant, id is the
\* next value of the table's sequence
PriceHistoryRecord(id, price) ==
    [id         |-> id,
     symbol     |-> price.symbol,
     price      |-> price.price,
     confidence |-> price.confidence,
     source     |-> price.source,
     timestamp  |-> price.timestamp]

\* insert_price that reports success without writing the row
insert_price_not_stored(rows, id, price) == rows

insert_price(rows, id, price) == Append(rows, PriceHistoryRecord(id, price))

\* state.db.insert_price(&price).await?
InsertPriceError(r) ==
    /\ pc[r] = "insert_price"
    /\ response' = [response EXCEPT ![r] = Err("DatabaseError", "sqlx")]
    /\ pc' = [pc EXCEPT ![r] = "done"]
    /\ UNCHANGED <<cache_mutex, aggregator_mutex, req_symbol, req_pyth,
                   req_price, price_history, price_deviation_alerts, admin_pc,
                   produced, overlapped, expected, clock, redis, calcVars,
                   callVars, cacheVars, healthVars, dbVars,
                   price_history_id_seq,
                   adapterVars, handler_pc>>

InsertPrice(r) ==
    /\ pc[r] = "insert_price"
    /\ price_history_id_seq' = price_history_id_seq + 1
    /\ price_history' = insert_price(price_history, price_history_id_seq + 1,
                                     req_price[r].val)
    /\ response' = [response EXCEPT ![r] = req_price[r]]
    /\ pc' = [pc EXCEPT ![r] = "done"]
    /\ UNCHANGED <<cache_mutex, aggregator_mutex, req_symbol, req_pyth,
                   req_price, admin_pc, produced, overlapped, expected, clock,
                   redis, calcVars, callVars, cacheVars,
                   price_deviation_alerts, healthVars, dbVars,
                   adapterVars, handler_pc>>

\* the request whose client may go away before it is answered
Cancellable == {1}

\* the awaits at which the future of get_price can be dropped
SuspensionPoints ==
    {"lock_cache", "lock_aggregator", "cache_get", "pyth", "switchboard",
     "cache_set", "insert_price"}

\* a dropped future that takes its guards with it
Cancel_keeping_guards(r) ==
    /\ pc[r] \in SuspensionPoints
    /\ r \in Cancellable
    /\ pc' = [pc EXCEPT ![r] = "cancelled"]
    /\ overlapped' = [q \in Requests |->
                         IF overlapped[q] = r THEN 0 ELSE overlapped[q]]
    /\ UNCHANGED <<cache_mutex, aggregator_mutex, req_symbol, req_pyth,
                   req_price, response, price_history,
                   price_deviation_alerts, admin_pc, produced, expected,
                   price_history_id_seq, clock, redis, calcVars, callVars,
                   cacheVars, healthVars, dbVars,
                   adapterVars, handler_pc>>

\* the client goes away and the future of get_price is dropped where it is
\* suspended: the MutexGuards it holds are dropped with it
Cancel(r) ==
    /\ pc[r] \in SuspensionPoints
    /\ r \in Cancellable
    /\ pc' = [pc EXCEPT ![r] = "cancelled"]
    /\ cache_mutex' = IF cache_mutex = r THEN 0 ELSE cache_mutex
    /\ aggregator_mutex' = IF aggregator_mutex = r THEN 0 ELSE aggregator_mutex
    /\ overlapped' = [q \in Requests |->
                         IF overlapped[q] = r THEN 0 ELSE overlapped[q]]
    /\ UNCHANGED <<req_symbol, req_pyth, req_price, response, price_history,
                   price_deviation_alerts, admin_pc, produced, expected,
                   price_history_id_seq, clock, redis, calcVars, callVars,
                   cacheVars, healthVars, dbVars,
                   adapterVars, handler_pc>>

\* POST /api/v1/admin/cache/clear: state.cache.lock().await ...
ClearLock ==
    /\ admin_pc = "idle"
    /\ MutexFree(cache_mutex)
    /\ cache_mutex' = Admin
    /\ admin_pc' = "clear_all"
    /\ UNCHANGED <<aggregator_mutex, pc, req_symbol, req_pyth, req_price,
                   response, price_history, price_deviation_alerts, produced,
                   overlapped, expected, clock, redis, calcVars, callVars,
                   cacheVars, healthVars, dbVars,
                   price_history_id_seq,
                   adapterVars, handler_pc>>

\* ... .cache().clear_all().await?, with or without an error
ClearAll ==
    /\ admin_pc = "clear_all"
    /\ \/ redis' = clear_all(redis)
       \/ UNCHANGED redis
    /\ cache_mutex' = 0
    /\ admin_pc' = "done"
    /\ UNCHANGED <<aggregator_mutex, pc, req_symbol, req_pyth, req_price,
                   response, price_history, price_deviation_alerts, produced,
                   overlapped, expected, clock, calcVars, callVars, cacheVars,
                   healthVars, dbVars,
                   price_history_id_seq,
                   adapterVars, handler_pc>>

Next ==
    \/ \E r \in Requests :
          \/ Arrive(r) \/ LockCache(r) \/ LockAggregator(r)
          \/ CacheGetError(r) \/ CacheGet(r)
          \/ FetchPyth(r) \/ FetchSwitchboard(r)
          \/ CacheSetError(r) \/ CacheSet(r)
          \/ InsertPriceError(r) \/ InsertPrice(r)
          \/ Cancel(r)
    \/ ClearLock
    \/ ClearAll

(***************************************************************************)
(* price_aggregator.rs: health_check, the in-memory health of each oracle  *)
(***************************************************************************)
MaxChecks == 3        \* health checks run by the aggregator
MaxUpserts == 3       \* observations upserted into table oracle_health

OracleKinds == {"Pyth", "Switchboard"}

OracleHealth(source, is_healthy, last_update, error_count) ==
    [source |-> source, is_healthy |-> is_healthy,
     last_update |-> last_update, error_count |-> error_count]

NoHealth == [some |-> FALSE, val |-> OracleHealth("", FALSE, 0, 0)]

SomeHealth(h) == [some |-> TRUE, val |-> h]

\* HashMap::new()
EmptyHealth == [k \in OracleKinds |-> NoHealth]

\* the round a Switchboard aggregator holds may have opened a while ago
HealthLags == {0, max_price_age_seconds}

\* PythClient::health_check: get_price of the first registered feed
PythHealthCheck(t) ==
    IF PythFeeds = {} THEN {FALSE}
    ELSE {r.ok : r \in UNION {PythGetPrice(s, t) : s \in PythFeeds}}

\* SwitchboardClient::health_check: get_price of the first registered
\* aggregator, and the round no older than a minute
SwitchboardHealthCheck(t) ==
    IF SwitchboardAggregators = {} THEN {FALSE}
    ELSE {r.ok /\ ~(t - r.val.timestamp > 60) :
             r \in UNION {SwitchboardGetPrice(s, t - lag) :
                             s \in SwitchboardAggregators, lag \in HealthLags}}

\* error_count: if healthy { 0 } else { 1 }
ErrorCount(healthy) == IF healthy THEN 0 ELSE 1

(***************************************************************************)
(* database.rs: table oracle_health, one row per source                    *)
(***************************************************************************)
\* the value a counter column takes when an INSERT does not name it
CounterDefault == 0

\* the columns update_oracle_health writes: failures are the consecutive
\* failures, requests and errors the two totals
OracleHealthRecord(source, is_healthy, last_success_at, failures, requests, errors, updated_at) ==
    [source |-> source, is_healthy |-> is_healthy,
     last_success_at |-> last_success_at,
     consecutive_failures |-> failures,
     total_requests |-> requests, total_failures |-> errors,
     updated_at |-> updated_at]

NoRow == [some |-> FALSE, val |-> OracleHealthRecord("", FALSE, 0, 0, 0, 0, 0)]

SomeRow(r) == [some |-> TRUE, val |-> r]

\* INSERT INTO oracle_health (source, is_healthy, last_success_at, updated_at)
\* ... ON CONFLICT (source) DO UPDATE SET ...; t is the server's NOW()
update_oracle_health(rows, h, t) ==
    LET old == rows[h.source] IN
    [rows EXCEPT ![h.source] =
        IF ~old.some
        THEN SomeRow(OracleHealthRecord(h.source, h.is_healthy, h.last_update,
                                        CounterDefault, CounterDefault,
                                        CounterDefault, t))
        ELSE SomeRow(OracleHealthRecord(
                 h.source, h.is_healthy, h.last_update,
                 IF h.is_healthy THEN 0 ELSE old.val.consecutive_failures + 1,
                 old.val.total_requests + 1,
                 old.val.total_failures + (IF h.is_healthy THEN 0 ELSE 1),
                 t))]

HealthInit ==
    /\ oracle_health = EmptyHealth
    /\ health_pc = "idle"
    /\ health = EmptyHealth
    /\ checks = 0
    /\ streak = [k \in OracleKinds |-> 0]
    /\ oracle_health_rows = [k \in OracleKinds |-> NoRow]
    /\ upserts = 0
    /\ observed = [k \in OracleKinds |-> <<>>]

\* let mut health = HashMap::new();
HealthStart ==
    /\ health_pc = "idle"
    /\ checks < MaxChecks
    /\ checks' = checks + 1
    /\ health' = EmptyHealth
    /\ health_pc' = "pyth"
    /\ UNCHANGED <<oracle_health, streak, oracle_health_rows, upserts,
                   observed, clock, redis, calcVars, callVars, cacheVars,
                   svcVars, dbVars,
                   adapterVars, handler_pc>>

\* self.pyth.health_check().await; health.insert(PriceSource::Pyth, ...)
HealthPyth ==
    /\ health_pc = "pyth"
    /\ \E pyth_healthy \in PythHealthCheck(now) :
          /\ health' = [health EXCEPT !["Pyth"] =
                 SomeHealth(OracleHealth("Pyth", pyth_healthy, now,
                                         ErrorCount(pyth_healthy)))]
          /\ streak' = [streak EXCEPT !["Pyth"] =
                 IF pyth_healthy THEN 0 ELSE @ + 1]
    /\ health_pc' = "switchboard"
    /\ UNCHANGED <<oracle_health, checks, oracle_health_rows, upserts,
                   observed, clock, redis, calcVars, callVars, cacheVars,
                   svcVars, dbVars,
                   adapterVars, handler_pc>>

\* self.switchboard.health_check().await; health.insert(...);
\* self.oracle_health = health.clone()
HealthSwitchboard ==
    /\ health_pc = "switchboard"
    /\ \E sb_healthy \in SwitchboardHealthCheck(now) :
          /\ health' = [health EXCEPT !["Switchboard"] =
                 SomeHealth(OracleHealth("Switchboard", sb_healthy, now,
                                         ErrorCount(sb_healthy)))]
          /\ streak' = [streak EXCEPT !["Switchboard"] =
                 IF sb_healthy THEN 0 ELSE @ + 1]
    /\ oracle_health' = health'
    /\ health_pc' = "idle"
    /\ UNCHANGED <<checks, oracle_health_rows, upserts, observed, clock,
                   redis, calcVars, callVars, cacheVars, svcVars, dbVars,
                   adapterVars, handler_pc>>

\* db.update_oracle_health(&health) with the observation of any source; a
\* call the server rejects leaves the table as it was
UpdateOracleHealth ==
    /\ upserts < MaxUpserts
    /\ upserts' = upserts + 1
    /\ \E k \in OracleKinds, is_healthy \in BOOLEAN :
          /\ oracle_health_rows' = update_oracle_health(
                 oracle_health_rows,
                 OracleHealth(k, is_healthy, now, ErrorCount(is_healthy)), now)
          /\ observed' = [observed EXCEPT ![k] = Append(@, is_healthy)]
    /\ UNCHANGED <<oracle_health, health_pc, health, checks, streak, clock,
                   redis, calcVars, callVars, cacheVars, svcVars, dbVars,
                   adapterVars, handler_pc>>

\* time passes while the health checks are suspended or between them
HealthTick ==
    /\ Advance
    /\ UNCHANGED <<redis, calcVars, callVars, cacheVars, svcVars, healthVars,
                   dbVars,
                   adapterVars, handler_pc>>

\* time passes between the observations
UpsertTick ==
    /\ Advance
    /\ UNCHANGED <<redis, calcVars, callVars, cacheVars, svcVars, healthVars,
                   dbVars,
                   adapterVars, handler_pc>>

HealthNext ==
    \/ HealthStart
    \/ HealthPyth
    \/ HealthSwitchboard
    \/ HealthTick

UpsertNext ==
    \/ UpdateOracleHealth
    \/ UpsertTick

(***************************************************************************)
(* database.rs: table price_history, its queries and its retention sweep   *)
(***************************************************************************)
MaxRows == 3          \* rows the database harness inserts

DbPrices == {100, 103}

DbTimestamps == {Now0 - max_price_age_seconds, Now0}

\* served readings: two prices of one symbol, one price of the other
DbReadings ==
    {r \in {PriceData(s, Dec(p), Dec(1), ts, "Aggregate") :
                s \in Symbols, p \in DbPrices, ts \in DbTimestamps} :
        r.symbol = "BTC/USD" \/ r.price = Dec(100)}

DbLimits == {-1, 0, 1, 2}

DbCutoffs == DbTimestamps \cup {Now0 + 1}

\* what a call of the harness returned
DbOk(v) == [kind |-> "ok", val |-> v]

DbErr == [kind |-> "err", val |-> "DatabaseError"]

\* Row::get of a NULL column into a type that is not an Option panics
DbPanic == [kind |-> "panic", val |-> "UnexpectedNullError"]

DbNone == [kind |-> "none", val |-> ""]

DbCall(op, symbol, a, b) == [op |-> op, symbol |-> symbol, a |-> a, b |-> b]

\* the indices of the rows a WHERE clause keeps
RowsOf(rows, symbol) == {i \in 1..Len(rows) : rows[i].symbol = symbol}

RowsIn(rows, symbol, start_timestamp, end_timestamp) ==
    {i \in RowsOf(rows, symbol) : /\ rows[i].timestamp >= start_timestamp
                                  /\ rows[i].timestamp <= end_timestamp}

\* ORDER BY timestamp DESC: every order of the indices in which timestamps
\* do not increase; rows of equal timestamp come in either order
OrdersByTimestampDesc(rows, idx) ==
    LET n == Cardinality(idx) IN
    {o \in [1..n -> idx] :
        /\ \A i, j \in 1..n : i # j => o[i] # o[j]
        /\ \A i \in 1..n - 1 : rows[o[i]].timestamp >= rows[o[i + 1]].timestamp}

Min(a, b) == IF a < b THEN a ELSE b

\* SELECT ... WHERE symbol = $1 ORDER BY timestamp DESC LIMIT $2: the results
\* the server may give; a negative LIMIT is an error
get_price_history(rows, symbol, limit) ==
    IF limit < 0 THEN {DbErr}
    ELSE {DbOk([k \in 1..Min(limit, Cardinality(RowsOf(rows, symbol)))
                  |-> rows[o[k]]]) :
             o \in OrdersByTimestampDesc(rows, RowsOf(rows, symbol))}

RECURSIVE SumOver(_, _, _)
SumOver(rows, idx, square) ==
    IF idx = {} THEN 0
    ELSE LET i == CHOOSE i \in idx : TRUE
             x == rows[i].price
         IN (IF square THEN x * x ELSE x) + SumOver(rows, idx \ {i}, square)

MinPrice(rows, idx) ==
    CHOOSE x \in {rows[i].price : i \in idx} :
        \A i \in idx : x <= rows[i].price

MaxPrice(rows, idx) ==
    CHOOSE x \in {rows[i].price : i \in idx} :
        \A i \in idx : x >= rows[i].price

\* avg_price is the quotient sum / count, kept as the pair; std_dev is NULL
\* for fewer than two rows and otherwise the square root of
\* (count * sum of squares - sum * sum) / (count * (count - 1)), kept as the
\* numerator
PriceStats(symbol, min_price, max_price, avg_price, std_dev, count) ==
    [symbol |-> symbol, min_price |-> min_price, max_price |-> max_price,
     avg_price |-> avg_price, std_dev |-> std_dev, count |-> count]

\* SELECT MIN(price), MAX(price), AVG(price), STDDEV(price), COUNT(*): over
\* no row the aggregates are NULL, and min_price, max_price and avg_price
\* are read into a Decimal
get_price_stats(rows, symbol, start_timestamp, end_timestamp) ==
    LET idx == RowsIn(rows, symbol, start_timestamp, end_timestamp)
        count == Cardinality(idx)
        sum == SumOver(rows, idx, FALSE)
    IN IF count = 0 THEN DbPanic
       ELSE DbOk(PriceStats(symbol, MinPrice(rows, idx), MaxPrice(rows, idx),
                            <<sum, count>>,
                            IF count < 2 THEN <<>>
                            ELSE <<count * SumOver(rows, idx, TRUE) - sum * sum>>,
                            count))

\* insert_prices: the INSERTs of one transaction, each taking the next id
RECURSIVE insert_prices(_, _, _)
insert_prices(rows, id, prices) ==
    IF prices = <<>> THEN rows
    ELSE insert_prices(insert_price(rows, id + 1, prices[1]), id + 1,
                       Tail(prices))

\* the batches handed to insert_prices
DbBatches ==
    {b \in {<<p, q>> : p \in DbReadings, q \in DbReadings} :
        b[1].symbol = b[2].symbol /\ b[1].price = b[2].price}

\* DELETE FROM price_history WHERE timestamp < $1
KeptRows(rows, before_timestamp) ==
    SelectSeq(rows, LAMBDA r : ~(r.timestamp < before_timestamp))

\* a sweep that also takes the rows stamped with the cutoff itself
cleanup_old_prices_inclusive(rows, before_timestamp) ==
    [rows |-> KeptRows(rows, before_timestamp + 1),
     deleted |-> Len(rows) - Len(KeptRows(rows, before_timestamp + 1))]

cleanup_old_prices(rows, before_timestamp) ==
    [rows |-> KeptRows(rows, before_timestamp),
     deleted |-> Len(rows) - Len(KeptRows(rows, before_timestamp))]

\* the variables of the request handlers, which the database harness leaves
handlerVars == <<cache_mutex, aggregator_mutex, pc, req_symbol, req_pyth,
                 req_price, response, price_deviation_alerts, admin_pc,
                 produced, overlapped, expected>>

DbInit ==
    /\ db_call = DbCall("", "", 0, 0)
    /\ db_result = DbNone
    /\ db_appended = NoPrice

\* db.insert_price(&price)
DbInsertPrice ==
    /\ price_history_id_seq < MaxRows
    /\ \E price \in DbReadings :
          /\ price_history' = insert_price(price_history,
                                           price_history_id_seq + 1, price)
          /\ db_appended' = price
          /\ db_call' = DbCall("insert_price", price.symbol, 0, 0)
    /\ price_history_id_seq' = price_history_id_seq + 1
    /\ db_result' = DbOk(price_history_id_seq + 1)
    /\ UNCHANGED <<handlerVars, clock, redis, calcVars, callVars, cacheVars,
                   healthVars,
                   adapterVars, handler_pc>>

\* db.insert_prices(&prices): tx.commit() makes every row visible at once
DbInsertPrices ==
    /\ \E prices \in DbBatches :
          /\ price_history_id_seq + Len(prices) <= MaxRows
          /\ price_history' = insert_prices(price_history,
                                            price_history_id_seq, prices)
          /\ price_history_id_seq' = price_history_id_seq + Len(prices)
          /\ db_appended' = prices[Len(prices)]
          /\ db_call' = DbCall("insert_prices", "", Len(prices), 0)
    /\ db_result' = DbOk(0)
    /\ UNCHANGED <<handlerVars, clock, redis, calcVars, callVars, cacheVars,
                   healthVars,
                   adapterVars, handler_pc>>

\* db.insert_prices(&prices) failing at begin, at an INSERT or at commit:
\* the transaction is dropped and rolls back, the ids it drew stay drawn
DbInsertPricesError ==
    /\ \E n \in {Len(prices) : prices \in DbBatches}, drawn \in 0..2 :
          /\ drawn <= n
          /\ price_history_id_seq + n <= MaxRows
          /\ price_history_id_seq' = price_history_id_seq + drawn
          /\ db_call' = DbCall("insert_prices", "", n, 0)
    /\ db_result' = DbErr
    /\ UNCHANGED <<price_history, db_appended, handlerVars, clock, redis,
                   calcVars, callVars, cacheVars, healthVars,
                   adapterVars, handler_pc>>

\* db.get_price_history(symbol, limit)
DbGetPriceHistory ==
    /\ \E symbol \in Symbols, limit \in DbLimits :
          /\ db_call' = DbCall("get_price_history", symbol, limit, 0)
          /\ db_result' \in get_price_history(price_history, symbol, limit)
    /\ UNCHANGED <<price_history, price_history_id_seq, db_appended,
                   handlerVars, clock, redis, calcVars, callVars, cacheVars,
                   healthVars,
                   adapterVars, handler_pc>>

\* db.get_price_stats(symbol, start_timestamp, end_timestamp)
DbGetPriceStats ==
    /\ \E symbol \in Symbols, start_timestamp, end_timestamp \in DbTimestamps :
          /\ db_call' = DbCall("get_price_stats", symbol, start_timestamp,
                               end_timestamp)
          /\ db_result' = get_price_stats(price_history, symbol,
                                          start_timestamp, end_timestamp)
    /\ UNCHANGED <<price_history, price_history_id_seq, db_appended,
                   handlerVars, clock, redis, calcVars, callVars, cacheVars,
                   healthVars,
                   adapterVars, handler_pc>>

\* db.cleanup_old_prices(before_timestamp)
DbCleanupOldPrices ==
    /\ \E before_timestamp \in DbCutoffs :
          LET swept == cleanup_old_prices(price_history, before_timestamp) IN
          /\ db_call' = DbCall("cleanup_old_prices", "", before_timestamp, 0)
          /\ price_history' = swept.rows
          /\ db_result' = DbOk(swept.deleted)
    /\ db_appended' = NoPrice
    /\ UNCHANGED <<price_history_id_seq, handlerVars, clock, redis, calcVars,
                   callVars, cacheVars, healthVars,
                   adapterVars, handler_pc>>

DbNext ==
    \/ DbInsertPrice
    \/ DbInsertPrices
    \/ DbInsertPricesError
    \/ DbGetPriceHistory
    \/ DbGetPriceStats
    \/ DbCleanupOldPrices

(***************************************************************************)
(* programs/oracle_price_feed/src/lib.rs: the on-chain program.  A price   *)
(* is an i64 mantissa with an exponent, a confidence is a u64.             *)
(***************************************************************************)
OnChainPriceData(price, confidence, expo, timestamp, source) ==
    [price |-> price, confidence |-> confidence, expo |-> expo,
     timestamp |-> timestamp, source |-> source]

NoOnChainPrice == OnChainPriceData(0, 0, 0, 0, "")

OnChainOk(v) == [ok |-> TRUE, val |-> v, err |-> ""]

OnChainErr(e) == [ok |-> FALSE, val |-> NoOnChainPrice, err |-> e]

\* i64 division: the quotient is truncated towards zero
TruncDiv(a, b) == IF a >= 0 THEN a \div b ELSE -((-a) \div b)

\* (x as u128).checked_mul(10000).checked_div(y as u128) as u64: None when
\* the divisor is zero
CheckedBps(x, y) ==
    IF y = 0 THEN OnChainErr("MathOverflow") ELSE OnChainOk((x * 10000) \div y)

onchain_calculate_median(prices) ==
    IF prices = <<>> THEN OnChainErr("NoPriceData")
    ELSE
      LET sorted_prices == SortByPrice(prices)
          len == Len(sorted_prices)
          \* Rust indexes from 0, a TLA+ sequence from 1
          mid1 == sorted_prices[len \div 2]
          mid2 == sorted_prices[(len \div 2) + 1]
      IN IF len % 2 = 1 THEN OnChainOk(sorted_prices[(len \div 2) + 1])
         ELSE OnChainOk(OnChainPriceData(
                  TruncDiv(mid1.price + mid2.price, 2),
                  (mid1.confidence + mid2.confidence) \div 2,
                  mid1.expo,
                  IF mid1.timestamp > mid2.timestamp
                  THEN mid1.timestamp ELSE mid2.timestamp,
                  "Internal"))

onchain_calculate_deviation(price1, price2) ==
    CheckedBps(Abs(price1 - price2), Abs(price2))

\* STEP 1: the first reading that fails a test ends the instruction
RECURSIVE OnChainValidateLoop(_, _, _)
OnChainValidateLoop(prices, n, current_time) ==
    IF n = 0 THEN OnChainOk(NoOnChainPrice)
    ELSE
      LET before == OnChainValidateLoop(prices, n - 1, current_time)
          price_data == prices[n]
          age == current_time - price_data.timestamp
          confidence_bps ==
              CheckedBps(price_data.confidence, Abs(price_data.price))
      IN IF ~before.ok THEN before
         ELSE IF age > max_price_age_seconds
         THEN OnChainErr("StalePriceData")
         ELSE IF ~confidence_bps.ok THEN confidence_bps
         ELSE IF confidence_bps.val > max_confidence_bps
         THEN OnChainErr("ConfidenceTooLarge")
         ELSE before

\* STEP 3: any reading too far from the median rejects all
RECURSIVE OnChainGateLoop(_, _, _)
OnChainGateLoop(prices, n, median_price) ==
    IF n = 0 THEN OnChainOk(median_price)
    ELSE
      LET before == OnChainGateLoop(prices, n - 1, median_price)
          deviation ==
              onchain_calculate_deviation(prices[n].price, median_price.price)
      IN IF ~before.ok THEN before
         ELSE IF ~deviation.ok THEN deviation
         ELSE IF deviation.val > max_deviation_bps
         THEN OnChainErr("PriceDeviationTooLarge")
         ELSE before

\* the instruction, with the config account holding the backend's thresholds
validate_price_consensus(prices, current_time) ==
    IF prices = <<>> THEN OnChainErr("NoPriceData")
    ELSE
      LET step1 == OnChainValidateLoop(prices, Len(prices), current_time) IN
      IF ~step1.ok THEN step1
      ELSE
        LET median_price == onchain_calculate_median(prices) IN
        IF ~median_price.ok THEN median_price
        ELSE OnChainGateLoop(prices, Len(prices), median_price.val)

(***************************************************************************)
(* pyth_client.rs, switchboard_client.rs: the conversions to Decimal.      *)
(* A raw integer is written m * 10^z with |m| < 10^9, so that an i64 near  *)
(* its limit or a power of ten past it can be named without being          *)
(* computed; a Decimal is written c * 10^x with c free of trailing zeros.  *)
(* rust_decimal keeps 96 bits of mantissa and at most 28 decimal places:   *)
(* Decimal::from and * panic past 96 bits, / is exact when the quotient    *)
(* has at most 28 places.                                                  *)
(***************************************************************************)
RawInt(m, z) == [m |-> m, z |-> z]

RECURSIVE Digits(_)
Digits(n) == IF n < 10 THEN 1 ELSE 1 + Digits(n \div 10)

RECURSIVE Pow10(_)
Pow10(k) == IF k = 0 THEN 1 ELSE 10 * Pow10(k - 1)

\* the largest k for which 10^k is an i64: 10^18 < 2^63 < 10^19
I64MaxPow10 == 18

\* the largest scale of a Decimal, and the largest k for which 10^k has at
\* most 96 bits
MAX_SCALE == 28

\* the first nine digits of 2^96 = 79228162514264337593543950336
Leading96 == 792281625

\* |m| * 10^e < 2^96
Fits96(m, e) ==
    \/ m = 0
    \/ Digits(Abs(m)) + e < 29
    \/ /\ Digits(Abs(m)) + e = 29
       /\ Abs(m) * Pow10(9 - Digits(Abs(m))) <= Leading96

RECURSIVE Decimal(_, _)
Decimal(c, x) ==
    IF c = 0 THEN [c |-> 0, x |-> 0]
    ELSE IF c % 10 = 0 THEN Decimal(c \div 10, x + 1)
    ELSE [c |-> c, x |-> x]

ConvOk(d) == [kind |-> "ok", val |-> d]

\* the call does not return
ConvPanic == [kind |-> "panic", val |-> Decimal(0, 0)]

\* a Decimal computed from a wrapped power of ten: not m * 10^e for any e
ConvWrapped == [kind |-> "wrapped", val |-> Decimal(0, 0)]

\* 10_i64.pow(k): past 10^18 the product overflows, which panics when the
\* build checks overflow and wraps modulo 2^64 when it does not
\* (10^19 wraps to -8446744073709551616)
i64_pow10(k, overflow_checks) ==
    IF k <= I64MaxPow10 THEN [kind |-> "ok", k |-> k]
    ELSE IF overflow_checks THEN [kind |-> "panic", k |-> k]
    ELSE [kind |-> "wrapped", k |-> k]

convert_to_decimal(value, expo, overflow_checks) ==
    LET p == i64_pow10(Abs(expo), overflow_checks) IN
    IF p.kind = "panic" THEN ConvPanic
    ELSE IF expo < 0
    THEN IF p.kind = "wrapped"
         THEN IF value.m = 0 THEN ConvOk(Decimal(0, 0)) ELSE ConvWrapped
         ELSE ConvOk(Decimal(value.m, value.z - p.k))
    ELSE IF p.kind = "wrapped"
         THEN IF value.m = 0 THEN ConvOk(Decimal(0, 0))
              ELSE IF Fits96(value.m, value.z + I64MaxPow10 + 1)
              THEN ConvWrapped ELSE ConvPanic
         ELSE IF Fits96(value.m, value.z + p.k)
              THEN ConvOk(Decimal(value.m, value.z + p.k))
              ELSE ConvPanic

\* Decimal::from(mantissa), then, for a positive scale, the division by
\* Decimal::from(10_i128.pow(scale))
switchboard_decimal_to_decimal(mantissa, scale) ==
    IF ~Fits96(mantissa.m, mantissa.z) THEN ConvPanic
    ELSE IF scale > 0
    THEN IF scale > MAX_SCALE THEN ConvPanic
         ELSE ConvOk(Decimal(mantissa.m, mantissa.z - scale))
    ELSE ConvOk(Decimal(mantissa.m, mantissa.z))

\* what an account may hold
RawPrices ==
    {RawInt(0, 0), RawInt(5, 0), RawInt(-5, 0), RawInt(5000000, 0),
     RawInt(500009999, 0), RawInt(5, 18)}

RawConfidences == {RawInt(0, 0), RawInt(25, 0)}

Expos == {-19, -18, -8, -2, 0, 2, 11, 18, 19}

Scales == {0, 5, 28, 29}

NotConverted == [adapter |-> "", price |-> ConvPanic, confidence |-> ConvPanic]

ConvInit ==
    /\ raw = [adapter |-> "", price |-> RawInt(0, 0),
              confidence |-> RawInt(0, 0), expo |-> 0]
    /\ normalized = NotConverted

\* steps 3 and 4 of PythClient::get_price
ConvPyth ==
    /\ \E price \in RawPrices, conf \in RawConfidences, expo \in Expos,
          overflow_checks \in BOOLEAN :
          /\ raw' = [adapter |-> "Pyth", price |-> price,
                     confidence |-> conf, expo |-> expo]
          /\ normalized' =
                [adapter |-> "Pyth",
                 price |-> convert_to_decimal(price, expo, overflow_checks),
                 confidence |->
                     convert_to_decimal(conf, expo, overflow_checks)]
    /\ UNCHANGED <<price_feeds, aggregators, register_result, handler_pc,
                   clock, redis, calcVars, callVars, cacheVars, svcVars,
                   healthVars, dbVars>>

\* step 4 of SwitchboardClient::get_price; result and std_deviation carry
\* the scale of the round
ConvSwitchboard ==
    /\ \E mantissa \in RawPrices, std_deviation \in RawConfidences,
          scale \in Scales :
          /\ raw' = [adapter |-> "Switchboard", price |-> mantissa,
                     confidence |-> std_deviation, expo |-> -scale]
          /\ normalized' =
                [adapter |-> "Switchboard",
                 price |-> switchboard_decimal_to_decimal(mantissa, scale),
                 confidence |->
                     switchboard_decimal_to_decimal(std_deviation, scale)]
    /\ UNCHANGED <<price_feeds, aggregators, register_result, handler_pc,
                   clock, redis, calcVars, callVars, cacheVars, svcVars,
                   healthVars, dbVars>>

ConvNext == ConvPyth \/ ConvSwitchboard

(***************************************************************************)
(* register_symbol and the adapters' registries.  An address is a string   *)
(* that Pubkey::from_str parses or rejects.                                *)
(***************************************************************************)
RegSymbols == {"BTC/USD", "ETH/USD", "SOL/USD"}

ValidAddresses == {"GVXRSBjF", "8SXvChNY"}

Addresses == ValidAddresses \cup {"not-a-pubkey"}

\* no entry under the key
NoPubkey == ""

\* Pubkey::from_str(address).map_err(ParseError)
Pubkey_from_str(address) ==
    IF address \in ValidAddresses
    THEN [ok |-> TRUE, val |-> address, err |-> NoError]
    ELSE [ok |-> FALSE, val |-> NoPubkey,
          err |-> OracleError("ParseError", "Invalid pubkey")]

Unit(e) == [ok |-> TRUE, err |-> e]

Failed(e) == [ok |-> FALSE, err |-> e]

\* what register_symbol leaves: both registries and its result
Registered(feeds, aggs, res) ==
    [price_feeds |-> feeds, aggregators |-> aggs, result |-> res]

\* register_feed, then register_aggregator, each with ?
register_symbol(feeds, aggs, symbol, pyth_feed, switchboard_aggregator) ==
    LET pubkey == Pubkey_from_str(pyth_feed) IN
    IF ~pubkey.ok THEN Registered(feeds, aggs, Failed(pubkey.err))
    ELSE
      LET feeds1 == [feeds EXCEPT ![symbol] = pubkey.val]
          pubkey2 == Pubkey_from_str(switchboard_aggregator)
      IN IF ~pubkey2.ok THEN Registered(feeds1, aggs, Failed(pubkey2.err))
         ELSE Registered(feeds1, [aggs EXCEPT ![symbol] = pubkey2.val],
                         Unit(NoError))

\* step 1 of PythClient::get_price
PythFeedAddress(feeds, symbol) ==
    IF feeds[symbol] = NoPubkey
    THEN Err("NoPriceData", "No Pyth feed registered")
    ELSE Ok(feeds[symbol])

\* step 1 of SwitchboardClient::get_price
SwitchboardAggregatorAddress(aggs, symbol) ==
    IF aggs[symbol] = NoPubkey
    THEN Err("NoPriceData", "No Switchboard aggregator registered")
    ELSE Ok(aggs[symbol])

NoRegistration == [called |-> FALSE, symbol |-> "", ok |-> FALSE]

RegisterInit ==
    /\ price_feeds = [s \in RegSymbols |-> NoPubkey]
    /\ aggregators = [s \in RegSymbols |-> NoPubkey]
    /\ register_result = NoRegistration

RegisterSymbol ==
    /\ \E symbol \in RegSymbols, pyth_feed \in Addresses,
          switchboard_aggregator \in Addresses :
          LET out == register_symbol(price_feeds, aggregators, symbol,
                                     pyth_feed, switchboard_aggregator)
          IN /\ price_feeds' = out.price_feeds
             /\ aggregators' = out.aggregators
             /\ register_result' = [called |-> TRUE, symbol |-> symbol,
                                    ok |-> out.result.ok]
    /\ UNCHANGED <<raw, normalized, handler_pc, clock, redis, calcVars,
                   callVars, cacheVars, svcVars, healthVars, dbVars>>

RegisterNext == RegisterSymbol

(***************************************************************************)
(* api.rs: the handlers as users of AppState.cache and AppState.aggregator.*)
(* A handler is the list of its lock() calls and of its other awaits, in   *)
(* program order; an await names the guards that are dropped once it has   *)
(* completed and, where a ? follows it, the step an error leads to (an     *)
(* error returns from the function, which drops every guard it holds).     *)
(***************************************************************************)
Lock(mutex) == [op |-> "lock", on |-> mutex, drops |-> {}, on_err |-> 0]

Await(what, drops, on_err) ==
    [op |-> "await", on |-> what, drops |-> drops, on_err |-> on_err]

\* the guards live to the end of the block, before insert_price
get_price_steps ==
    <<Lock("cache"), Lock("aggregator"),
      Await("get_price_with_cache", {"cache", "aggregator"}, 5),
      Await("insert_price", {}, 5)>>

\* get_all_prices over two symbols: get_price_internal keeps its guards to
\* the end of the function, across insert_price
get_all_prices_steps ==
    <<Lock("cache"), Lock("aggregator"),
      Await("get_price_with_cache", {}, 5),
      Await("insert_price", {"cache", "aggregator"}, 5),
      Lock("cache"), Lock("aggregator"),
      Await("get_price_with_cache", {}, 9),
      Await("insert_price", {"cache", "aggregator"}, 9)>>

\* health_check that takes the cache lock inside the aggregator lock
health_check_steps_nested ==
    <<Await("db.health_check", {}, 0),
      Lock("aggregator"), Lock("cache"),
      Await("cache.health_check", {"cache"}, 0),
      Await("aggregator.health_check", {"aggregator"}, 0)>>

\* the cache guard is a temporary of its statement; the aggregator guard
\* lives to the end of the handler
health_check_steps ==
    <<Await("db.health_check", {}, 0),
      Lock("cache"), Await("cache.health_check", {"cache"}, 0),
      Lock("aggregator"),
      Await("aggregator.health_check", {"aggregator"}, 0)>>

clear_cache_steps == <<Lock("cache"), Await("clear_all", {"cache"}, 3)>>

cache_stats_steps == <<Lock("cache"), Await("get_stats", {"cache"}, 3)>>

\* the requests in flight: two price requests and one of each other kind
HandlerSteps ==
    <<get_price_steps, get_price_steps, get_all_prices_steps,
      health_check_steps, clear_cache_steps, cache_stats_steps>>

Handlers == 1..Len(HandlerSteps)

HealthCheckHandler == 4

\* where handler h is: 0 before it arrives, past its last step once it
\* has answered
Finished(h) == handler_pc[h] = Len(HandlerSteps[h]) + 1

Running(h) == handler_pc[h] \in 1..Len(HandlerSteps[h])

Step(h) == HandlerSteps[h][handler_pc[h]]

requestVars ==
    <<pc, req_symbol, req_pyth, req_price, response, price_history,
      price_deviation_alerts, admin_pc, produced, overlapped, expected,
      price_history_id_seq>>

HandlersInit == handler_pc = [h \in Handlers |-> 0]

HandlerArrive(h) ==
    /\ handler_pc[h] = 0
    /\ handler_pc' = [handler_pc EXCEPT ![h] = 1]
    /\ UNCHANGED <<cache_mutex, aggregator_mutex, requestVars, adapterVars,
                   clock, redis, calcVars, callVars, cacheVars, healthVars,
                   dbVars>>

\* state.cache.lock().await or state.aggregator.lock().await
HandlerLock(h) ==
    /\ Running(h)
    /\ Step(h).op = "lock"
    /\ IF Step(h).on = "cache"
       THEN /\ MutexFree(cache_mutex)
            /\ cache_mutex' = h
            /\ UNCHANGED aggregator_mutex
       ELSE /\ MutexFree(aggregator_mutex)
            /\ aggregator_mutex' = h
            /\ UNCHANGED cache_mutex
    /\ handler_pc' = [handler_pc EXCEPT ![h] = @ + 1]
    /\ UNCHANGED <<requestVars, adapterVars, clock, redis, calcVars,
                   callVars, cacheVars, healthVars, dbVars>>

\* the awaited call completes without error
HandlerAwait(h) ==
    /\ Running(h)
    /\ Step(h).op = "await"
    /\ cache_mutex' =
          IF cache_mutex = h /\ "cache" \in Step(h).drops
          THEN 0 ELSE cache_mutex
    /\ aggregator_mutex' =
          IF aggregator_mutex = h /\ "aggregator" \in Step(h).drops
          THEN 0 ELSE aggregator_mutex
    /\ handler_pc' = [handler_pc EXCEPT ![h] = @ + 1]
    /\ UNCHANGED <<requestVars, adapterVars, clock, redis, calcVars,
                   callVars, cacheVars, healthVars, dbVars>>

\* the awaited call completes with an error and ? returns
HandlerAwaitError(h) ==
    /\ Running(h)
    /\ Step(h).op = "await"
    /\ Step(h).on_err > 0
    /\ cache_mutex' = IF cache_mutex = h THEN 0 ELSE cache_mutex
    /\ aggregator_mutex' = IF aggregator_mutex = h THEN 0 ELSE aggregator_mutex
    /\ handler_pc' = [handler_pc EXCEPT ![h] = Step(h).on_err]
    /\ UNCHANGED <<requestVars, adapterVars, clock, redis, calcVars,
                   callVars, cacheVars, healthVars, dbVars>>

LocksNext ==
    \/ \E h \in Handlers : HandlerArrive(h)
    \/ \E h \in Handlers : HandlerLock(h)
    \/ \E h \in Handlers : HandlerAwait(h)
    \/ \E h \in Handlers : HandlerAwaitError(h)

(***************************************************************************)
(* api.rs, get_price: get_price_with_cache called with the closure that    *)
(* runs get_consensus_price, one request after the other, under the clock. *)
(* Time passes only while the request is suspended at an await, so the     *)
(* clock of a state in which the call has returned is its time of return.  *)
(***************************************************************************)
ServeAges == {0, max_price_age_seconds, max_price_age_seconds + 1}

ServePyth(symbol, t) ==
    {r \in PythGetPrice(symbol, t) :
        IF ~r.ok THEN r.err.kind = "SolanaError" ELSE
                /\ r.val.price = Dec(100)
                /\ r.val.confidence = Dec(0)
                /\ t - r.val.timestamp \in ServeAges}

ServeSwitchboard(symbol, t) ==
    {r \in SwitchboardGetPrice(symbol, t) :
        IF ~r.ok THEN r.err.kind = "SolanaError" ELSE
                /\ r.val.price = Dec(100)
                /\ r.val.confidence = Dec(0)
                /\ t - r.val.timestamp \in ServeAges}

\* fetch_fn: agg.get_consensus_price(&s), suspended at self.pyth.get_price
FetchFnPyth ==
    /\ fetcher_pc = "fetch_fn"
    /\ \E res \in ServePyth(fetcher_symbol, now) : call_pyth' = res
    /\ fetcher_pc' = "switchboard"
    /\ UNCHANGED <<fetcher_symbol, fetcher_price, fetcher_result, calls,
                   fetched, hits, read_seen, put_time, put_val, cache_stats,
                   call_pc, call_symbol, call_switchboard, call_valid,
                   call_result, clock, redis, calcVars, svcVars, healthVars,
                   dbVars,
                   adapterVars, handler_pc>>

\* fetch_fn: self.switchboard.get_price, then validation, consensus and the
\* deviation gate at the clock's present value; the ? of step 2 returns an
\* error to the caller
FetchFnSwitchboard ==
    /\ fetcher_pc = "switchboard"
    /\ \E res \in ServeSwitchboard(fetcher_symbol, now) :
          LET price == get_consensus_price(call_pyth, res, now) IN
          IF price.ok
          THEN /\ fetcher_price' = price.val
               /\ fetcher_pc' = "cache_set"
               /\ UNCHANGED fetcher_result
          ELSE /\ fetcher_result' = price
               /\ fetcher_pc' = "idle"
               /\ UNCHANGED fetcher_price
    /\ UNCHANGED <<fetcher_symbol, calls, fetched, hits, read_seen, put_time,
                   put_val, cache_stats, callVars, clock, redis, calcVars,
                   svcVars, healthVars, dbVars,
                   adapterVars, handler_pc>>

\* time passes while the request waits for Redis or for an adapter
ServeTick ==
    /\ fetcher_pc # "idle"
    /\ Advance
    /\ UNCHANGED <<cacheVars, redis, calcVars, callVars, svcVars, healthVars,
                   dbVars,
                   adapterVars, handler_pc>>

ServeNext ==
    \/ GetStart
    \/ GetReadError
    \/ GetRead
    \/ FetchFnPyth
    \/ FetchFnSwitchboard
    \/ GetWriteError
    \/ GetWrite
    \/ ServeTick

(***************************************************************************)
(* Specifications                                                          *)
(***************************************************************************)
Init ==
    /\ now = Now0
    /\ ticks = 0
    /\ RedisInit
    /\ CalcInit
    /\ CallInit
    /\ CacheInit
    /\ SvcInit
    /\ HealthInit
    /\ DbInit
    /\ RegisterInit
    /\ ConvInit
    /\ HandlersInit

Spec == Init /\ [][Next]_vars

SpecCalc == Init /\ [][CalcNext]_vars

SpecAgg == Init /\ [][CallNext]_vars

SpecCache == Init /\ [][CacheNext]_vars

SpecHealth == Init /\ [][HealthNext]_vars

SpecUpsert == Init /\ [][UpsertNext]_vars

SpecDb == Init /\ [][DbNext]_vars

SpecServe == Init /\ [][ServeNext]_vars

SpecRegister == Init /\ [][RegisterNext]_vars

SpecConv == Init /\ [][ConvNext]_vars

\* tokio's Mutex hands the lock to its waiters in turn, and an awaited call
\* completes
SpecLocks ==
    /\ Init
    /\ [][LocksNext]_vars
    /\ \A h \in Handlers :
          /\ WF_vars(HandlerLock(h))
          /\ WF_vars(HandlerAwait(h) \/ HandlerAwaitError(h))

(***************************************************************************)
(* C2                                                                      *)
(***************************************************************************)
DistinctPrices(s) ==
    \A i, j \in 1..Len(s) : i # j => s[i].price # s[j].price

\* the price with exactly k strictly smaller prices in s (prices distinct)
PriceOfRank(s, k) ==
    LET i == CHOOSE i \in 1..Len(s) :
                 Cardinality({j \in 1..Len(s) : s[j].price < s[i].price}) = k
    IN s[i].price

\* C2: for a non-empty slice of N readings with pairwise distinct prices,
\* calculate_consensus returns the price of rank floor(N/2) in price order
\* when N is odd and the mean of the prices of ranks N/2 - 1 and N/2 when N
\* is even.
C2_MedianOfDistinct ==
    (out_consensus # NotRun /\ in_prices # <<>> /\ DistinctPrices(in_prices)) =>
        LET n == Len(in_prices) IN
        /\ out_consensus.ok
        /\ out_consensus.val.price =
             IF n % 2 = 1 THEN PriceOfRank(in_prices, n \div 2)
             ELSE (PriceOfRank(in_prices, n \div 2 - 1)
                   + PriceOfRank(in_prices, n \div 2)) \div 2

\* an unsorted three-element slice and a two-element slice have been reduced
C2_Witness ==
    /\ out_consensus # NotRun
    /\ Len(in_prices) = 3
    /\ DistinctPrices(in_prices)
    /\ in_prices[1].price > in_prices[3].price
    /\ in_prices[3].price > in_prices[2].price
    /\ out_consensus.val.price = in_prices[3].price
(***************************************************************************)
(* C1, C3, C10: one get_consensus_price call (SpecAgg)                     *)
(***************************************************************************)
CallReturned == call_pc = "done"

\* |s - r| * 10000 / r <= max_deviation_bps, the quotient truncated as the
\* basis-point arithmetic of the pipeline truncates it; no r = 0 is within
\* any bound of a different s
WithinDeviation(s, r) ==
    \/ s = r
    \/ r < 0
    \/ r > 0 /\ (Abs(s - r) * 10000) \div r <= max_deviation_bps

\* C1: whenever get_consensus_price returns an Aggregate reading R, every
\* reading S that survived validation in that call satisfies
\* |S.price - R.price| * 10000 / R.price <= max_deviation_bps.
C1_SurvivorsWithinDeviation ==
    (CallReturned /\ call_result.ok) =>
        \A i \in 1..Len(call_valid) :
            WithinDeviation(call_valid[i].price, call_result.val.price)

\* C3 as stated: every returned quote is backed by at least two surviving
\* source readings that agree within max_deviation_bps.
C3_TwoSourcesAgreed ==
    (CallReturned /\ call_result.ok) =>
        /\ Len(call_valid) >= 2
        /\ \A i \in 1..Len(call_valid) :
              WithinDeviation(call_valid[i].price, call_result.val.price)

\* a reading passes per-reading validation at time t
FreshAndConfident(p, t) ==
    /\ t - p.timestamp <= max_price_age_seconds
    /\ \/ p.price = 0
       \/ p.confidence = 0
       \/ /\ p.price > 0
          /\ (p.confidence * 10000) \div p.price <= max_confidence_bps

\* C3 amended: every returned quote is an Aggregate reading backed by at
\* least one source reading that survived validation, fresh and confident;
\* a single survivor is served as the quote, with its price and confidence.
C3_OneSourceValidated ==
    (CallReturned /\ call_result.ok) =>
        /\ Len(call_valid) >= 1
        /\ call_result.val.source = "Aggregate"
        /\ \A i \in 1..Len(call_valid) :
              /\ call_valid[i].source \in {"Pyth", "Switchboard"}
              /\ FreshAndConfident(call_valid[i], now)
        /\ Len(call_valid) = 1 =>
              /\ call_result.val.price = call_valid[1].price
              /\ call_result.val.confidence = call_valid[1].confidence

\* both adapters answered, validation discarded one reading, and the other
\* was returned as the quote
C3_Witness ==
    /\ CallReturned
    /\ call_result.ok
    /\ call_pyth.ok
    /\ call_switchboard.ok
    /\ Len(call_valid) = 1
    /\ call_result.val.price = call_valid[1].price
    /\ call_result.val.source = "Aggregate"

AdapterErrors ==
    {r.err : r \in {x \in {call_pyth, call_switchboard} : ~x.ok}}

\* C10: if at least one adapter's get_price succeeded, the other adapter's
\* failure is never what get_consensus_price returns: the call goes on with
\* the readings it has, so a lone fresh and confident reading is served.
C10_AdapterFailureNotSurfaced ==
    (CallReturned /\ (call_pyth.ok \/ call_switchboard.ok)) =>
        /\ call_result.ok \/ call_result.err \notin AdapterErrors
        /\ \A a \in {call_pyth, call_switchboard} :
              (a.ok /\ Len(CollectPrices(call_pyth, call_switchboard)) = 1
                    /\ FreshAndConfident(a.val, now))
                 => /\ call_result.ok
                    /\ call_result.val.price = a.val.price
                    /\ call_result.val.confidence = a.val.confidence

\* Pyth failed at the RPC, Switchboard answered, and the call returned the
\* Switchboard reading as the consensus
C10_Witness ==
    /\ CallReturned
    /\ ~call_pyth.ok
    /\ call_pyth.err.kind = "SolanaError"
    /\ call_switchboard.ok
    /\ call_result.ok
    /\ call_result.val.price = call_switchboard.val.price
    /\ call_result.val.source = "Aggregate"

(***************************************************************************)
(* C4 to C7: concurrent price requests                                     *)
(***************************************************************************)
GetReturned(r) == pc[r] \in {"insert_price", "done"}

\* C4: among price requests for one symbol that overlap a cache miss,
\* fetch_fn is invoked at most once: a request that arrived while another
\* request's fetch_fn was running for its symbol never invokes fetch_fn.
C4_ProduceAtMostOnce ==
    \A r \in Requests : overlapped[r] # 0 => ~produced[r]

\* C5: a request that arrived while another request's fetch_fn was running
\* for its symbol waits for that call and gets exactly what it returned, the
\* same reading or the same error, without invoking fetch_fn itself.
C5_WaitersShareResult ==
    \A r \in Requests :
        (overlapped[r] # 0 /\ GetReturned(r)) =>
            /\ ~produced[r]
            /\ req_price[r] = expected[r]

\* C6: no two requests for the same symbol are inside fetch_fn
\* (get_consensus_price) at the same time.
C6_OneProducePerSymbol ==
    \A r1, r2 \in Requests :
        (r1 # r2 /\ req_symbol[r1] = req_symbol[r2]) =>
            ~(pc[r1] \in ProduceStates /\ pc[r2] \in ProduceStates)

\* one request is inside fetch_fn while another request for the same symbol
\* has arrived and is kept waiting at the cache lock
C6_Witness ==
    \E r1, r2 \in Requests :
        /\ r1 # r2
        /\ req_symbol[r1] = req_symbol[r2]
        /\ pc[r1] = "switchboard"
        /\ pc[r2] = "lock_cache"
        /\ overlapped[r2] = r1

\* C7: while fetch_fn runs for one symbol, a request for a different symbol
\* does not wait: the lock it needs to read the cache is free.
C7_SymbolsIndependent ==
    \A r1, r2 \in Requests :
        (/\ pc[r1] \in ProduceStates
         /\ pc[r2] = "lock_cache"
         /\ req_symbol[r1] # req_symbol[r2]) => MutexFree(cache_mutex)

(***************************************************************************)
(* C8, C9: the cache and its time to live                                  *)
(***************************************************************************)
\* C8: a call of get_price_with_cache whose cache read finds an entry that
\* set_price stored less than DEFAULT_CACHE_TTL seconds ago returns that
\* entry and does not invoke fetch_fn; a call whose cache read comes once the
\* entry's time to live has elapsed invokes fetch_fn.
C8_HitWithinTtlMissAfter ==
    /\ read_seen.state = "live" =>
          /\ ~fetched
          /\ fetcher_pc = "idle"
          /\ fetcher_result = Ok(read_seen.val)
    /\ read_seen.state = "expired" => fetched

\* after a call was served from the cache, a later call for a symbol reads
\* the cache when the entry's time to live has elapsed and is now in fetch_fn
C8_Witness ==
    /\ hits >= 1
    /\ read_seen.state = "expired"
    /\ fetched
    /\ fetcher_pc = "fetch_fn"

\* C9: after set_price(r), with no later set_price for r.symbol and no
\* clear_all, get_price(r.symbol) is Some(r) while fewer than
\* DEFAULT_CACHE_TTL seconds have elapsed and None from then on.
C9_RoundTrip ==
    \A s \in Symbols :
        put_time[s] >= 0 =>
            get_price(redis, s, now) =
                IF now - put_time[s] < DEFAULT_CACHE_TTL
                THEN Some(put_val[s])
                ELSE None

\* a call has just been served the stored reading one second before its
\* time to live ends
C9_Witness ==
    /\ fetcher_pc = "idle"
    /\ read_seen.state = "live"
    /\ put_time[fetcher_symbol] >= 0
    /\ now - put_time[fetcher_symbol] = DEFAULT_CACHE_TTL - 1
    /\ fetcher_result = Ok(put_val[fetcher_symbol])
    /\ get_price(redis, fetcher_symbol, now + 1) = None

(***************************************************************************)
(* C11                                                                     *)
(***************************************************************************)
Stale(p, t) == t - p.timestamp > max_price_age_seconds

LowConfidence(p) ==
    /\ p.price > 0
    /\ p.confidence > 0
    /\ (p.confidence * 10000) \div p.price > max_confidence_bps

ExceedsDeviation(s, r) ==
    \/ r = 0 /\ s # r
    \/ r > 0 /\ (Abs(s - r) * 10000) \div r > max_deviation_bps

\* the consensus price the call proposed for its surviving readings
ProposedPrice == calculate_consensus(call_valid).val.price

\* C12: if a surviving reading deviates from the proposed consensus price by
\* more than max_deviation_bps, get_consensus_price fails with
\* PriceDeviation and returns no reading.
C12_DeviationRejected ==
    (/\ CallReturned
     /\ call_valid # <<>>
     /\ \E i \in 1..Len(call_valid) :
           ExceedsDeviation(call_valid[i].price, ProposedPrice)) =>
        /\ ~call_result.ok
        /\ call_result.err.kind = "PriceDeviation"

(***************************************************************************)
(* C13                                                                     *)
(***************************************************************************)
\* floor(confidence * 10000 / price), and 0 when the price is 0
ConfidenceBps(p) ==
    IF p.price = 0 THEN 0
    ELSE IF p.price > 0 THEN (p.confidence * 10000) \div p.price
    ELSE -((p.confidence * 10000) \div (-p.price))

MeetsThresholds(p, t) ==
    /\ t - p.timestamp <= max_price_age_seconds
    /\ ConfidenceBps(p) <= max_confidence_bps

Survived(p) == \E i \in 1..Len(call_valid) : call_valid[i] = p

\* C13: a reading an adapter returned survives validation exactly when its
\* age is at most max_price_age_seconds and its confidence in basis points
\* is at most max_confidence_bps.
C13_SurvivesExactlyWithinThresholds ==
    CallReturned =>
        LET prices == CollectPrices(call_pyth, call_switchboard) IN
        \A i \in 1..Len(prices) :
            Survived(prices[i]) <=> MeetsThresholds(prices[i], now)

(***************************************************************************)
(* C14                                                                     *)
(***************************************************************************)
\* no reading of the call makes validate_prices return an error
NoAbort ==
    LET prices == CollectPrices(call_pyth, call_switchboard) IN
    \A i \in 1..Len(prices) :
        ~(/\ ~Stale(prices[i], now)
          /\ prices[i].price < 0
          /\ prices[i].confidence > 0)

\* C14: for a reading with price 0 and any confidence,
\* calculate_confidence_bps is 0, so validation does not discard the
\* reading for its confidence: it survives unless it is stale.
C14_ZeroPriceNeverLowConfidence ==
    CallReturned =>
        LET prices == CollectPrices(call_pyth, call_switchboard) IN
        \A i \in 1..Len(prices) :
            prices[i].price = 0 =>
                /\ calculate_confidence_bps(prices[i]) = Ok(0)
                /\ (~Stale(prices[i], now) /\ NoAbort) => Survived(prices[i])

\* a fresh Pyth reading with price 0 and a confidence of 2 survived
C14_Witness ==
    /\ CallReturned
    /\ call_pyth.ok
    /\ call_pyth.val.price = 0
    /\ call_pyth.val.confidence = Dec(2)
    /\ ~Stale(call_pyth.val, now)
    /\ Survived(call_pyth.val)

\* C15: when exactly one reading survives validation, the call succeeds and
\* returns a reading with that survivor's price and confidence whose source
\* is Aggregate.
C15_SingleSurvivorReturned ==
    (CallReturned /\ Len(call_valid) = 1) =>
        /\ call_result.ok
        /\ call_result.val.price = call_valid[1].price
        /\ call_result.val.confidence = call_valid[1].confidence
        /\ call_result.val.source = "Aggregate"

\* only the Switchboard adapter answered, its reading survived validation
\* and came back as the Aggregate quote
C15_Witness ==
    /\ CallReturned
    /\ ~call_pyth.ok
    /\ call_switchboard.ok
    /\ call_valid = <<call_switchboard.val>>
    /\ call_result.ok
    /\ call_result.val.price = call_switchboard.val.price
    /\ call_result.val.confidence = call_switchboard.val.confidence
    /\ call_result.val.source = "Aggregate"
    /\ call_switchboard.val.source = "Switchboard"

\* C16: every reading the call returns has price >= 0, confidence >= 0 and
\* timestamp > 0, and a returned Aggregate reading is the median-rule result
\* over at least one validated reading of source Pyth or Switchboard.
C16_ReturnedReadingWellFormed ==
    (CallReturned /\ call_result.ok) =>
        /\ call_result.val.price >= 0
        /\ call_result.val.confidence >= 0
        /\ call_result.val.timestamp > 0
        /\ call_result.val.source = "Aggregate" =>
              /\ Len(call_valid) >= 1
              /\ call_result = calculate_consensus(call_valid)
              /\ \A i \in 1..Len(call_valid) :
                    /\ call_valid[i].source \in {"Pyth", "Switchboard"}
                    /\ MeetsThresholds(call_valid[i], now)

\* C17: a Redis error never fails a price request: no finished request
\* carries a RedisError response, whether the error hit the cache read
\* (which is to count as a miss) or the cache write after a successful
\* produce (which is to be swallowed).
C17_CacheErrorNeverFails ==
    \A r \in Requests :
        pc[r] = "done" =>
            ~(~response[r].ok /\ response[r].err.kind = RedisError.err.kind)

\* C18: a price request whose reading was obtained still returns that
\* reading when the insert into price_history fails.
C18_HistoryFailureNotSurfaced ==
    \A r \in Requests :
        (pc[r] = "done" /\ req_price[r].ok) => response[r] = req_price[r]

\* the row of price_history written for reading p
Stored(p) ==
    \E i \in 1..Len(price_history) :
        /\ price_history[i].symbol = p.symbol
        /\ price_history[i].price = p.price
        /\ price_history[i].confidence = p.confidence
        /\ price_history[i].source = p.source
        /\ price_history[i].timestamp = p.timestamp

\* C19: every reading returned by a successful price request has a row in
\* price_history whose symbol, price, confidence, source and timestamp equal
\* the returned reading's.
C19_ReturnedReadingStored ==
    \A r \in Requests :
        (pc[r] = "done" /\ response[r].ok) => Stored(response[r].val)

\* both requests were answered with a reading, one produced and one served
\* from the cache, and price_history holds a row for each
C19_Witness ==
    /\ \A r \in Requests :
          /\ pc[r] = "done"
          /\ response[r].ok
          /\ Stored(response[r].val)
    /\ \E r \in Requests : ~produced[r]
    /\ Len(price_history) = NReq

\* the price requests rejected with PriceDeviation
Rejected ==
    {r \in Requests : /\ pc[r] = "done"
                      /\ ~response[r].ok
                      /\ response[r].err.kind = "PriceDeviation"}

\* C20: whenever a price request is rejected with PriceDeviation, a row of
\* price_deviation_alerts for its symbol and the configured threshold has
\* been written, one row per rejected consensus.
C20_DeviationAlertPersisted ==
    /\ \A r \in Rejected :
          \E i \in 1..Len(price_deviation_alerts) :
              /\ price_deviation_alerts[i].symbol = req_symbol[r]
              /\ price_deviation_alerts[i].threshold_bps = max_deviation_bps
    /\ Len(price_deviation_alerts) = Cardinality(Rejected)

\* the in-memory health entry of source k records one failure
FailureRecorded(k) ==
    /\ oracle_health[k].some
    /\ ~oracle_health[k].val.is_healthy
    /\ oracle_health[k].val.error_count = 1

\* C21: when an adapter's get_price fails during a get_consensus_price call
\* on a fresh aggregator, oracle_health holds an entry for that source with
\* is_healthy false and error_count 1, and the other adapter was still
\* asked.
C21_AdapterFailureRecorded ==
    CallReturned =>
        /\ call_pyth # NotRun
        /\ call_switchboard # NotRun
        /\ ~call_pyth.ok => FailureRecorded("Pyth")
        /\ ~call_switchboard.ok => FailureRecorded("Switchboard")

\* C22: after any number of health checks, each source's entry has
\* is_healthy equal to the outcome of its last check and error_count equal
\* to the number of failed checks since its last passed one.
C22_ErrorCountIsFailureStreak ==
    (health_pc = "idle" /\ checks > 0) =>
        \A k \in OracleKinds :
            /\ oracle_health[k].some
            /\ oracle_health[k].val.is_healthy = (streak[k] = 0)
            /\ oracle_health[k].val.error_count = streak[k]

\* the number of failures at the end of a sequence of observations
RECURSIVE TrailingFailures(_)
TrailingFailures(obs) ==
    IF obs = <<>> \/ obs[Len(obs)] THEN 0
    ELSE 1 + TrailingFailures(SubSeq(obs, 1, Len(obs) - 1))

\* C23: after any sequence of upserted observations of a source, starting
\* from the first, the row's consecutive_failures is the number of failure
\* observations since the most recent success observation.
C23_ConsecutiveFailuresCounted ==
    \A k \in OracleKinds :
        observed[k] # <<>> =>
            /\ oracle_health_rows[k].some
            /\ oracle_health_rows[k].val.consecutive_failures =
                   TrailingFailures(observed[k])

\* the last get_price_history call and what it returned
RecentReturned == db_call.op = "get_price_history" /\ db_result.kind = "ok"

SameReading(row, p) ==
    /\ row.symbol = p.symbol
    /\ row.price = p.price
    /\ row.confidence = p.confidence
    /\ row.source = p.source
    /\ row.timestamp = p.timestamp

\* C24: get_price_history(symbol, limit) returns at most limit records, all
\* of that symbol, the most recently inserted first; right after
\* insert_price(r), get_price_history(r.symbol, 1) returns r.
C24_RecentNewestFirst ==
    RecentReturned =>
        LET got == db_result.val IN
        /\ Len(got) <= db_call.a
        /\ \A i \in 1..Len(got) : got[i].symbol = db_call.symbol
        /\ \A i \in 1..Len(got) - 1 : got[i].id > got[i + 1].id
        /\ (db_appended # NoPrice /\ db_appended.symbol = db_call.symbol
                /\ db_call.a = 1) =>
              /\ Len(got) = 1
              /\ SameReading(got[1], db_appended)

\* s is a proper prefix of t
Extends(s, t) == Len(s) < Len(t) /\ SubSeq(t, 1, Len(s)) = s

C26_EmptyStatsSucceed ==
    (/\ db_call.op = "get_price_stats"
     /\ RowsIn(price_history, db_call.symbol, db_call.a, db_call.b) = {}) =>
        /\ db_result.kind = "ok"
        /\ db_result.val.count = 0

\* the symbols stored since the last clear_all whose entry is within its
\* time to live
LiveSince == {s \in Symbols : /\ put_time[s] >= 0
                              /\ now - put_time[s] < DEFAULT_CACHE_TTL}

\* C27: get_stats reports as total_keys the number of symbols stored since
\* the last clear_all and still within the time to live: 0 right after
\* clear_all, k after k distinct symbols were stored since.
C27_StatsCountEntries ==
    cache_stats.some =>
        /\ cache_stats.total_keys = Cardinality(LiveSince)
        /\ cache_stats.ttl = DEFAULT_CACHE_TTL

\* the last call stored the reading it fetched, clear_all ran after it, and
\* get_stats then counted no key
C27_Witness ==
    /\ cache_stats.some
    /\ cache_stats.total_keys = 0
    /\ fetcher_pc = "idle"
    /\ fetched
    /\ fetcher_result.ok
    /\ \A s \in Symbols : put_time[s] < 0
    /\ now - fetcher_result.val.timestamp < DEFAULT_CACHE_TTL

\* the prices of the readings of s other than the one at index i
OtherPrices(s, i) == {s[j].price : j \in (1..Len(s)) \ {i}}

\* C28: with at least 3 honest readings and one corrupted reading in the
\* slice, whichever reading is the corrupted one and whatever price it
\* reports, the price calculate_consensus returns lies between the lowest
\* and the highest honest price.
C28_SingleOutlierBounded ==
    (out_consensus # NotRun /\ Len(in_prices) >= 4) =>
        /\ out_consensus.ok
        /\ \A i \in 1..Len(in_prices) :
              /\ \E lo \in OtherPrices(in_prices, i) :
                    lo <= out_consensus.val.price
              /\ \E hi \in OtherPrices(in_prices, i) :
                    out_consensus.val.price <= hi

\* three readings between 100 and 103 and a fourth reporting -100: the
\* result is 100.5, the mean of the two middle prices
C28_Witness ==
    /\ out_consensus # NotRun
    /\ Len(in_prices) = 4
    /\ in_prices[2].price = Dec(-100)
    /\ OtherPrices(in_prices, 2) = {Dec(100), Dec(101), Dec(103)}
    /\ out_consensus.ok
    /\ out_consensus.val.price = Dec(100) + 1

\* C29: a cancelled price request holds neither the cache lock nor the
\* aggregator lock, and no finished request does: the locks are held by
\* running handlers only, so a later request for the same symbol can take
\* them and run fetch_fn itself.
C29_CancelReleasesLocks ==
    \A r \in Requests :
        pc[r] \in {"cancelled", "done"} =>
            cache_mutex # r /\ aggregator_mutex # r

\* a request was cancelled after its cache miss and before its cache write,
\* while it held both locks; the other request for the same symbol then took
\* the locks, missed the cache, ran fetch_fn itself and was answered
C29_Witness ==
    \E r, q \in Requests :
        /\ pc[r] = "cancelled"
        /\ produced[r]
        /\ admin_pc = "idle"
        /\ req_symbol[q] = req_symbol[r]
        /\ pc[q] = "done"
        /\ produced[q]
        /\ response[q].ok

\* the awaits inside the block of get_price that holds the guards
AwaitsUnderGuards ==
    {"lock_aggregator", "cache_get", "pyth", "switchboard", "cache_set"}

\* C30: no price request is suspended at the wait for another lock, a cache
\* read or write or an adapter fetch while it holds the cache lock or the
\* aggregator lock, and no request holds both locks at once.
C30_NoLockAcrossAwait ==
    \A r \in Requests :
        /\ pc[r] \in AwaitsUnderGuards =>
              cache_mutex # r /\ aggregator_mutex # r
        /\ ~(cache_mutex = r /\ aggregator_mutex = r)

\* the orderings of the readings of a slice
Orderings(s) ==
    {[i \in 1..Len(s) |-> s[p[i]]] :
        p \in {q \in [1..Len(s) -> 1..Len(s)] :
                  \A i, j \in 1..Len(s) : i # j => q[i] # q[j]}}

\* C31: calculate_consensus gives the same consensus price, confidence and
\* timestamp for every ordering of the same readings, readings of equal price
\* and different confidence included.
C31_OrderIndependent ==
    out_consensus.ok =>
        \A s \in Orderings(in_prices) :
            LET other == calculate_consensus(s).val
            IN /\ other.price = out_consensus.val.price
               /\ other.confidence = out_consensus.val.confidence
               /\ other.timestamp = out_consensus.val.timestamp

\* C32: the reading a Consensus call returns carries the latest timestamp of
\* the readings that survived validation, the symbol that was queried and the
\* source Aggregate.
C32_ConsensusFields ==
    (CallReturned /\ call_result.ok) =>
        /\ Len(call_valid) >= 1
        /\ \E i \in 1..Len(call_valid) :
              call_result.val.timestamp = call_valid[i].timestamp
        /\ \A i \in 1..Len(call_valid) :
              call_result.val.timestamp >= call_valid[i].timestamp
        /\ call_result.val.symbol = call_symbol
        /\ call_result.val.source = "Aggregate"

\* both adapters' readings survived, the Switchboard one is the later, and
\* the call returned a reading with the Switchboard timestamp
C32_Witness ==
    /\ CallReturned
    /\ call_result.ok
    /\ Len(call_valid) = 2
    /\ call_valid[1].timestamp < call_valid[2].timestamp
    /\ call_result.val.timestamp = call_valid[2].timestamp
    /\ call_result.val.symbol = call_symbol
    /\ call_result.val.source = "Aggregate"

\* the confidence of the reading can be put in basis points
Validatable(p) == ~(p.price < 0 /\ p.confidence > 0)

\* C37: validating one reading never aborts a Consensus call: a reading that
\* cannot be validated (a negative price with a positive confidence) is
\* discarded, and the call returns what it returns for the other readings.
C37_ValidationNeverAborts ==
    CallReturned =>
        LET prices == CollectPrices(call_pyth, call_switchboard)
            wanted == ConsensusOf(SelectSeq(prices, Validatable), now)
        IN /\ call_result.ok = wanted.ok
           /\ call_result.ok => call_result.val = wanted.val
           /\ ~call_result.ok => call_result.err.kind = wanted.err.kind

\* C38: a Consensus call returns a reading of price 0 only if every reading
\* that survived validation has price 0; readings of -100 and 100 are never
\* accepted together.
C38_ZeroOnlyFromZeros ==
    (CallReturned /\ call_result.ok /\ call_result.val.price = 0) =>
        \A i \in 1..Len(call_valid) : call_valid[i].price = 0

\* where a request is before its produce call has returned
BeforeProduced ==
    {"idle", "lock_cache", "lock_aggregator", "cache_get", "pyth",
     "switchboard"}

\* C35: a price request whose produce call fails leaves the cache and the
\* price history unchanged: no step of a request up to and including the
\* return of its produce call writes either, and a request that has ended
\* takes no further step.
C35_FailedProduceWritesNothing ==
    [][\A r \in Requests :
          /\ (pc[r] \in BeforeProduced /\ pc'[r] # pc[r]) =>
                (redis' = redis /\ price_history' = price_history)
          /\ pc[r] = "done" => pc'[r] = "done"]_vars

\* a request ran fetch_fn, which failed with NoPriceData or PriceDeviation,
\* while the cache held another symbol's entry
C35_Witness ==
    \E r \in Requests :
        /\ pc[r] = "done"
        /\ produced[r]
        /\ ~response[r].ok
        /\ response[r].err.kind \in {"NoPriceData", "PriceDeviation"}
        /\ \E s \in Symbols : get_price(redis, s, now).some
        /\ price_history # <<>>

\* the call of get_price_with_cache has returned a reading, at the clock's
\* present value
Served == fetcher_pc = "idle" /\ fetcher_result.ok

\* C36: every reading a price request returns at time t, from the cache or
\* from a fresh consensus, has t - reading.timestamp <=
\* max_price_age_seconds + DEFAULT_CACHE_TTL.
C36_BoundedStaleness ==
    Served =>
        now - fetcher_result.val.timestamp
            <= max_price_age_seconds + DEFAULT_CACHE_TTL

\* C36, amended: a reading produced by a fresh consensus is at most
\* max_price_age_seconds old when its validation runs, the cache write stores
\* and returns that reading, and a reading returned from the cache is the
\* one stored less than DEFAULT_CACHE_TTL seconds before the read; the time
\* between validation and cache write is not bounded.
C36_StalenessPerStep ==
    [][/\ (fetcher_pc = "switchboard" /\ fetcher_pc' = "cache_set") =>
             now' - fetcher_price'.timestamp <= max_price_age_seconds
       /\ (fetcher_pc = "cache_set" /\ fetcher_result'.ok) =>
             /\ fetcher_result'.val = fetcher_price
             /\ put_val'[fetcher_symbol] = fetcher_price
             /\ put_time'[fetcher_symbol] = now'
       /\ (fetcher_pc = "cache_get" /\ fetcher_result'.ok) =>
             /\ fetcher_result'.val = put_val[fetcher_symbol]
             /\ now' - put_time[fetcher_symbol] < DEFAULT_CACHE_TTL]_vars

\* a reading that was max_price_age_seconds old at validation was written to
\* the cache later and has now been served from the cache, older than
\* max_price_age_seconds + DEFAULT_CACHE_TTL
C36_Witness ==
    /\ Served
    /\ ~fetched
    /\ fetcher_result.val = put_val[fetcher_symbol]
    /\ now - put_time[fetcher_symbol] < DEFAULT_CACHE_TTL
    /\ now - fetcher_result.val.timestamp
          > max_price_age_seconds + DEFAULT_CACHE_TTL

\* the readings of the call as the program takes them: mantissas in whole
\* units with exponent 0
ToOnChain(prices) ==
    [i \in 1..Len(prices) |->
        OnChainPriceData(prices[i].price \div 2, prices[i].confidence \div 2,
                         0, prices[i].timestamp, prices[i].source)]

\* C34: for the readings the adapters returned, the thresholds of the
\* backend and the clock of the call, validate_price_consensus accepts
\* exactly when get_consensus_price returns a reading, and then both carry
\* the same consensus price.
C34_OnChainSameConsensus ==
    CallReturned =>
        LET prices == CollectPrices(call_pyth, call_switchboard)
            onchain == validate_price_consensus(ToOnChain(prices), now)
        IN /\ onchain.ok <=> call_result.ok
           /\ onchain.ok => Dec(onchain.val.price) = call_result.val.price

\* C40: when register_symbol returns an error, neither registry has a new
\* entry for the symbol: a symbol that had no feed and no aggregator before
\* the call has none after it, and both adapters still report that nothing
\* is registered for it.
C40_RegisterAllOrNothing ==
    [][(register_result'.called /\ ~register_result'.ok) =>
          LET symbol == register_result'.symbol IN
          /\ price_feeds'[symbol] = price_feeds[symbol]
          /\ aggregators'[symbol] = aggregators[symbol]
          /\ (price_feeds[symbol] = NoPubkey /\ aggregators[symbol] = NoPubkey)
                => /\ ~PythFeedAddress(price_feeds', symbol).ok
                   /\ ~SwitchboardAggregatorAddress(aggregators', symbol).ok]_vars

\* value * 10^e, written out
Exactly(value, e) == ConvOk(Decimal(value.m, value.z + e))

\* C33: the adapters' normalization is exact: for a raw value and an
\* exponent (negative, zero or positive) the Pyth adapter yields
\* value * 10^exponent, for a mantissa and a scale the Switchboard adapter
\* yields mantissa / 10^scale, price and confidence alike.
C33_NormalizationExact ==
    normalized # NotConverted =>
        /\ normalized.price = Exactly(raw.price, raw.expo)
        /\ normalized.confidence = Exactly(raw.confidence, raw.expo)

\* C39: in every interleaving of the get_price, get_all_prices,
\* health_check, clear_cache and cache_stats handlers no set of requests
\* waits in a cycle on the cache and aggregator mutexes: every request that
\* has arrived, and whose awaited calls complete, acquires the locks it
\* needs and finishes.
C39_EveryRequestFinishes ==
    \A h \in Handlers : (handler_pc[h] > 0) ~> Finished(h)

\* a price request holds the cache lock and waits for the aggregator lock,
\* which the health check holds
C39_Witness ==
    \E h \in {1, 2} :
        /\ cache_mutex = h
        /\ Running(h)
        /\ Step(h) = Lock("aggregator")
        /\ aggregator_mutex = HealthCheckHandler
====
